---------------------------- MODULE Spec2Model ----------------------------
(***************************************************************************)
(* A model of the e2ee-chat repository: the WebSocket relay                *)
(* (relay-server.js), the sender-key ratchet of lib/groups/senderKeys.ts,  *)
(* the pairwise and sender-key functions of lib/crypto/sodium.ts, the      *)
(* group and message stores, and the handlers of the chat shell.           *)
(*                                                                         *)
(* The specifications share the variables: SpecRelay (the relay process),  *)
(* SpecGroup, SpecAttack, SpecBundle, SpecRace, SpecSelf, SpecShared and   *)
(* SpecLoss (the sender-key functions under honest, forged, interleaved    *)
(* and lossy use), SpecPairwise (direct messages), SpecMembership,         *)
(* SpecRekey, SpecSend and SpecLeave (the chat shell's group handlers).    *)
(***************************************************************************)
EXTENDS Integers, Sequences, FiniteSets, TLC

VARIABLES
    \* ---- relay-server.js ----
    phase,          \* per connection: where it is in its life (see PhaseNames)
    connections,    \* the Map publicKey -> Set<WebSocket>
    delivered,      \* per connection: payloads client.send() handed to it in the last handler run
    lastFrame,      \* the frame the last handler run processed (NoFrame when it was no frame)
    clock,          \* frames sent so far; the next frame's timestamp is clock + 1
    closeLog,       \* what the last unregisterConnection logged: the socket and the keys it left
    registered,     \* history: keys each connection registered under since it last closed or errored
    dropped         \* history: <<to, timestamp>> of `message` frames that found no connection set

VARIABLES
    \* ---- the sender-key layer: lib/groups/senderKeys.ts and lib/crypto/sodium.ts ----
    impl,               \* which implementation the chat shell is built with
    senderKeyStates,    \* senderKeys.ts: per browser, localStorage["sender-key-states:v1"]
    skStore,            \* sodium.ts: per browser, the localStorage items "sk:<groupId>:<publicKey>"
    rnd,                \* random values drawn so far (every draw is fresh)
    bundles,            \* bundles the sender has handed out
    packets,            \* what the sender's encrypt calls returned, in order
    encLog,             \* history: per encrypt call, the keys it used and the indices around it
    lastCall,           \* the last call's name, caller and outcome
    rx                  \* history per receiver: how its deliveries went so far and what it decrypted

groupVars == <<impl, senderKeyStates, skStore, rnd, bundles, packets, encLog, lastCall, rx>>

(* Calls of the async functions of senderKeys.ts that are under way *)
VARIABLES
    tasks               \* per call: where it is suspended (pc), its arguments and what it has read

raceVars == <<tasks>>

(* The client's pairwise sessions and its group store *)
VARIABLES
    pairwise,           \* session keys derived, boxes sealed with them, the last decryptMessage call
    groupChats,         \* identity id -> the GroupChat records under localStorage "groups:<id>"
    messageStore,       \* per browser, the StoredMessage records under localStorage "e2ee_messages_v1"
    sendTask,           \* the sender's handleSend call under way and the bundle promise chains it started
    sent                \* the frames the clients handed to ws.send, in order

clientVars == <<pairwise, groupChats, messageStore, sendTask, sent>>

relayVars == <<phase, connections, delivered, lastFrame, closeLog, clock, registered, dropped>>

--------------------------------------------------------------------------
(* Bounds *)

\* frames the relay processes in one run of the model
MaxFrames == 2

\* group messages the sender encrypts in one run of the model
MaxMsgs == 2

Conns == {"c1", "c2", "c3"}
KeyNames == {"A", "B"}

--------------------------------------------------------------------------
(* JSON values.  Every value has the same shape so that any two compare.   *)

Str(x) == [kind |-> "string", s |-> x, a |-> <<>>]
\* a number, written as its digits
Num(x) == [kind |-> "number", s |-> x, a |-> <<>>]
Arr(xs) == [kind |-> "array", s |-> "", a |-> xs]
Undefined == [kind |-> "undefined", s |-> "", a |-> <<>>]
Null == [kind |-> "null", s |-> "", a |-> <<>>]

\* typeof v === "string"
IsString(v) == v.kind = "string"
\* Array.isArray(v)
IsArray(v) == v.kind = "array"
\* JavaScript truthiness of a JSON value
Truthy(v) ==
    CASE v.kind = "string" -> v.s # ""
      [] v.kind = "number" -> v.s # "0"
      [] v.kind = "array" -> TRUE
      [] OTHER -> FALSE

FieldNames ==
    {"type", "publicKey", "from", "to", "ciphertext", "nonce", "timestamp",
     "groupId", "counter", "signature", "event", "packet", "bundle"}

\* An object: a field that is not set reads as undefined, and JSON.stringify
\* leaves such a field out.
EmptyObject == [f \in FieldNames |-> Undefined]
Obj(fields) == [f \in FieldNames |-> IF f \in DOMAIN fields THEN fields[f] ELSE Undefined]

\* The fields an object carries on the wire
Present(o) == {f \in FieldNames : o[f] # Undefined}


--------------------------------------------------------------------------
(* relay-server.js *)

PhaseNames == {"idle", "open", "closing", "errored", "closed", "down"}

\* ws.readyState as the other handlers see it.  A socket whose peer has begun
\* the closing handshake is CLOSING before its "close" event is emitted, and an
\* errored socket is CLOSING until its "close" event.
readyState(ph, ws) ==
    CASE ph[ws] = "idle" -> "CONNECTING"
      [] ph[ws] = "open" -> "OPEN"
      [] ph[ws] = "closed" -> "CLOSED"
      [] OTHER -> "CLOSING"

\* The mutant of registerConnection: a second register replaces the key's set
registerConnectionReplacing(conns, publicKey, ws) ==
    [k \in DOMAIN conns \cup {publicKey} |->
        IF k = publicKey THEN {ws} ELSE conns[k]]

registerConnection(conns, publicKey, ws) ==
    IF publicKey \in DOMAIN conns
    THEN [conns EXCEPT ![publicKey] = @ \cup {ws}]
    ELSE [k \in DOMAIN conns \cup {publicKey} |->
            IF k = publicKey THEN {ws} ELSE conns[k]]

\* The mutant of unregisterConnection: the emptied key is not deleted
unregisterConnectionNoPrune(conns, ws) ==
    [k \in DOMAIN conns |-> conns[k] \ {ws}]

\* The mutant of unregisterConnection: stops at the first key holding ws
unregisterConnectionFirstKey(conns, ws) ==
    LET holding == {k \in DOMAIN conns : ws \in conns[k]}
        first == IF holding = {} THEN {} ELSE {CHOOSE k \in holding : TRUE}
        keep == {k \in DOMAIN conns : k \notin first \/ conns[k] \ {ws} # {}}
    IN [k \in keep |-> IF k \in first THEN conns[k] \ {ws} ELSE conns[k]]

unregisterConnection(conns, ws) ==
    LET keep == {k \in DOMAIN conns : ws \notin conns[k] \/ conns[k] \ {ws} # {}}
    IN [k \in keep |-> conns[k] \ {ws}]

NoSends == [c \in Conns |-> <<>>]

\* The mutant of SendToSet: readyState is not looked at
SendToSetAnyState(sends, recSet, ph, payload) ==
    [c \in Conns |-> IF c \in recSet THEN Append(sends[c], payload) ELSE sends[c]]

\* for (const client of recSet) { if (client.readyState === WebSocket.OPEN) client.send(payload) }
SendToSet(sends, recSet, ph, payload) ==
    [c \in Conns |->
        IF c \in recSet /\ readyState(ph, c) = "OPEN"
        THEN Append(sends[c], payload)
        ELSE sends[c]]

\* The mutant of FanOut: the loop ends at the first listed key that is offline
RECURSIVE FanOutStopAtOffline(_, _, _, _, _, _)
FanOutStopAtOffline(sends, conns, ph, recipients, i, payload) ==
    IF i > Len(recipients) THEN sends
    ELSE LET pk == recipients[i] IN
         IF ~IsString(pk)
         THEN FanOutStopAtOffline(sends, conns, ph, recipients, i + 1, payload)
         ELSE IF pk.s \notin DOMAIN conns \/ conns[pk.s] = {}
         THEN sends
         ELSE FanOutStopAtOffline(SendToSet(sends, conns[pk.s], ph, payload),
                                  conns, ph, recipients, i + 1, payload)

\* for (const pk of recipients) { ... } of the group-event, sender-key and
\* group-message branches, from the i-th recipient on
RECURSIVE FanOut(_, _, _, _, _, _)
FanOut(sends, conns, ph, recipients, i, payload) ==
    IF i > Len(recipients) THEN sends
    ELSE LET pk == recipients[i] IN
         IF ~IsString(pk)
         THEN FanOut(sends, conns, ph, recipients, i + 1, payload)
         ELSE IF pk.s \notin DOMAIN conns \/ conns[pk.s] = {}
         THEN FanOut(sends, conns, ph, recipients, i + 1, payload)
         ELSE FanOut(SendToSet(sends, conns[pk.s], ph, payload),
                     conns, ph, recipients, i + 1, payload)

\* const recipients = Array.isArray(to) ? to : [to];
Recipients(to) == IF IsArray(to) THEN to.a ELSE <<to>>

\* JSON.stringify({ type: "message", from, ciphertext, nonce, timestamp,
\*                  ...(groupId ? { groupId } : {}) })
MessagePayload(msg) ==
    [EmptyObject EXCEPT
        !.type = Str("message"),
        !.from = msg.from,
        !.ciphertext = msg.ciphertext,
        !.nonce = msg.nonce,
        !.timestamp = msg.timestamp,
        !.groupId = IF Truthy(msg.groupId) THEN msg.groupId ELSE Undefined]

GroupEventPayload(msg) ==
    [EmptyObject EXCEPT
        !.type = Str("group-event"), !.from = msg.from, !.event = msg.event]

SenderKeyPayload(msg) ==
    [EmptyObject EXCEPT
        !.type = Str("sender-key"),
        !.from = msg.from,
        !.ciphertext = msg.ciphertext,
        !.nonce = msg.nonce,
        !.timestamp = msg.timestamp]

GroupMessagePayload(msg) ==
    [EmptyObject EXCEPT
        !.type = Str("group-message"), !.from = msg.from, !.packet = msg.packet]

\* The `message` branch finds no connection set for `to`
RecipientOffline(conns, msg) ==
    /\ msg.type = Str("message")
    /\ IsString(msg.to) /\ IsString(msg.from)
    /\ (msg.to.s \notin DOMAIN conns \/ conns[msg.to.s] = {})

\* The mutant of MessageSends: an offline recipient's message goes to everybody
MessageSendsBroadcastWhenOffline(conns, ph, msg) ==
    IF ~IsString(msg.to) \/ ~IsString(msg.from) THEN NoSends
    ELSE IF msg.to.s \notin DOMAIN conns \/ conns[msg.to.s] = {}
    THEN SendToSet(NoSends, Conns, ph, MessagePayload(msg))
    ELSE SendToSet(NoSends, conns[msg.to.s], ph, MessagePayload(msg))

\* if (msg.type === "message") { ... }: what is sent to whom
MessageSends(conns, ph, msg) ==
    IF ~IsString(msg.to) \/ ~IsString(msg.from) THEN NoSends
    ELSE IF msg.to.s \notin DOMAIN conns \/ conns[msg.to.s] = {} THEN NoSends
    ELSE SendToSet(NoSends, conns[msg.to.s], ph, MessagePayload(msg))

\* if (msg.type === "group-event") { ... }
GroupEventSends(conns, ph, msg) ==
    IF ~IsString(msg.from) THEN NoSends
    ELSE FanOut(NoSends, conns, ph, Recipients(msg.to), 1, GroupEventPayload(msg))

\* if (msg.type === "sender-key") { ... }
SenderKeySends(conns, ph, msg) ==
    IF ~IsString(msg.from) THEN NoSends
    ELSE FanOut(NoSends, conns, ph, Recipients(msg.to), 1, SenderKeyPayload(msg))

\* if (msg.type === "group-message") { ... }
GroupMessageSends(conns, ph, msg) ==
    IF ~IsString(msg.from) THEN NoSends
    ELSE FanOut(NoSends, conns, ph, Recipients(msg.to), 1, GroupMessagePayload(msg))

\* msg.type === "register" && typeof msg.publicKey === "string"
IsRegistration(raw) ==
    raw.parses /\ raw.msg.type = Str("register") /\ IsString(raw.msg.publicKey)

\* ws.on("message"): the sends of one handler run.  A frame that does not parse,
\* a registration and a frame of a type no branch names send nothing.
HandlerSends(conns, ph, raw) ==
    IF ~raw.parses \/ IsRegistration(raw) THEN NoSends
    ELSE CASE raw.msg.type = Str("message") -> MessageSends(conns, ph, raw.msg)
           [] raw.msg.type = Str("group-event") -> GroupEventSends(conns, ph, raw.msg)
           [] raw.msg.type = Str("sender-key") -> SenderKeySends(conns, ph, raw.msg)
           [] raw.msg.type = Str("group-message") -> GroupMessageSends(conns, ph, raw.msg)
           [] OTHER -> NoSends

\* ws.on("message"): the registry after one handler run
HandlerConnections(conns, ws, raw) ==
    IF IsRegistration(raw)
    THEN registerConnection(conns, raw.msg.publicKey.s, ws)
    ELSE conns


--------------------------------------------------------------------------
(* The frames clients put on the wire (page.tsx handleSend and the modals), *)
(* and frames a misbehaving client may send.                               *)

KeyStr == {Str(k) : k \in KeyNames}
NotAString == Num("7")

Parsed(msg) == [parses |-> TRUE, isNull |-> FALSE, msg |-> msg]
\* a frame JSON.parse throws on
Unparseable == [parses |-> FALSE, isNull |-> FALSE, msg |-> EmptyObject]
\* the frame `null`: JSON.parse returns null, which has no properties to read
NullFrame == [parses |-> TRUE, isNull |-> TRUE, msg |-> EmptyObject]

RegisterFrames ==
    {Parsed(Obj([type |-> Str("register"), publicKey |-> pk])) :
        pk \in KeyStr \cup {NotAString}}

\* a 1:1 message of handleSend (direct mode)
DirectMessage(from, to) ==
    Obj([type |-> Str("message"), from |-> from, to |-> to,
         ciphertext |-> Str("ct"), nonce |-> Str("n")])

\* a group message of handleSend (group mode): nonce: null, groupId, counter, signature
GroupTaggedMessage(from, to) ==
    Obj([type |-> Str("message"), from |-> from, to |-> to,
         ciphertext |-> Str("ct"), nonce |-> Null, groupId |-> Str("G"),
         counter |-> Num("1"), signature |-> Str("sig")])

MessageFrames ==
    {Parsed(DirectMessage(Str("A"), to)) : to \in KeyStr \cup {NotAString}}
    \cup {Parsed(GroupTaggedMessage(Str("A"), to)) : to \in KeyStr}
    \cup {Parsed(DirectMessage(NotAString, Str("A")))}

\* the bundle unicast of handleSend
BundleFrames ==
    {Parsed(Obj([type |-> Str("group-sender-key-bundle"), from |-> Str("A"),
                 to |-> to, ciphertext |-> Str("ct"), nonce |-> Str("n")])) :
        to \in KeyStr}

RecipientLists ==
    {Str("A"), Arr(<<Str("A"), Str("B")>>), Arr(<<Str("B"), NotAString, Str("A")>>)}

GroupEventFrames ==
    {Parsed(Obj([type |-> Str("group-event"), from |-> Str("A"), to |-> to,
                 event |-> Str("ev")])) : to \in RecipientLists}
    \cup {Parsed(Obj([type |-> Str("group-event"), from |-> NotAString,
                      to |-> Str("A"), event |-> Str("ev")]))}

SenderKeyFrames ==
    {Parsed(Obj([type |-> Str("sender-key"), from |-> Str("A"), to |-> to,
                 ciphertext |-> Str("ct"), nonce |-> Str("n")])) :
        to \in {Str("B"), Arr(<<Str("A"), Str("B")>>)}}

GroupMessageFrames ==
    {Parsed(Obj([type |-> Str("group-message"), from |-> Str("A"), to |-> to,
                 packet |-> Str("pkt")])) :
        to \in {Str("A"), Arr(<<Str("A"), Str("B")>>)}}

OtherFrames ==
    {Unparseable, NullFrame,
     Parsed(Obj([type |-> Str("ping"), from |-> Str("A"), to |-> Str("A")]))}

\* every frame that is no registration
EnvelopeFrames ==
    MessageFrames \cup BundleFrames \cup GroupEventFrames \cup SenderKeyFrames
    \cup GroupMessageFrames \cup OtherFrames

\* timestamp: now (new Date().toISOString()) of the frames that carry one
Stamp(raw, t) ==
    IF raw.parses /\ raw.msg.type \in {Str("message"), Str("sender-key")}
    THEN [raw EXCEPT !.msg.timestamp = Str(ToString(t))]
    ELSE raw

NoFrame == [ws |-> "none", raw |-> Unparseable]
NoClose == [ws |-> "none", keys |-> {}]

\* the "[relay] Connection closed for ..." lines of one unregisterConnection
CloseLogOf(conns, ws) == [ws |-> ws, keys |-> {k \in DOMAIN conns : ws \in conns[k]}]

--------------------------------------------------------------------------
(* The relay's events *)

RelayInit ==
    /\ phase = [c \in Conns |-> "idle"]
    /\ connections = <<>>
    /\ delivered = NoSends
    /\ lastFrame = NoFrame
    /\ closeLog = NoClose
    /\ clock = 0
    /\ registered = [c \in Conns |-> {}]
    /\ dropped = {}

\* wss.on("connection")
OnConnection(ws) ==
    /\ phase[ws] = "idle"
    /\ phase' = [phase EXCEPT ![ws] = "open"]
    /\ delivered' = NoSends
    /\ lastFrame' = NoFrame
    /\ closeLog' = NoClose
    /\ UNCHANGED <<connections, clock, registered, dropped>>

\* `msg.type` is read outside the try block: for the frame `null` it throws a
\* TypeError in the listener, which no handler catches
HandlerThrows(raw) == raw.parses /\ raw.isNull

\* ws.on("message") for one frame; the ws library emits no "message" on a
\* socket once it has emitted "error" or "close".  An exception the listener
\* throws is uncaught and ends the relay process: every socket goes down with
\* it and the registry is gone.
OnMessage(ws, raw) ==
    /\ phase[ws] = "open"
    /\ lastFrame' = [ws |-> ws, raw |-> raw]
    /\ closeLog' = NoClose
    /\ IF HandlerThrows(raw)
       THEN /\ phase' = [c \in Conns |-> "down"]
            /\ connections' = <<>>
            /\ delivered' = NoSends
            /\ registered' = [c \in Conns |-> {}]
            /\ UNCHANGED dropped
       ELSE /\ connections' = HandlerConnections(connections, ws, raw)
            /\ delivered' = HandlerSends(connections, phase, raw)
            /\ registered' =
                  IF IsRegistration(raw)
                  THEN [registered EXCEPT ![ws] = @ \cup {raw.msg.publicKey.s}]
                  ELSE registered
            /\ dropped' =
                  IF raw.parses /\ RecipientOffline(connections, raw.msg)
                  THEN dropped \cup {<<raw.msg.to.s, raw.msg.timestamp.s>>}
                  ELSE dropped
            /\ UNCHANGED phase

OnRegisterFrame(ws) ==
    \E raw \in RegisterFrames :
        /\ OnMessage(ws, raw)
        /\ UNCHANGED clock

OnEnvelopeFrame(ws) ==
    /\ clock < MaxFrames
    /\ \E frame \in EnvelopeFrames :
        OnMessage(ws, Stamp(frame, clock + 1))
    /\ clock' = clock + 1

\* The peer starts the closing handshake (or the socket breaks): readyState
\* leaves OPEN before the "close" event is emitted.
PeerClosing(ws) ==
    /\ phase[ws] = "open"
    /\ phase' = [phase EXCEPT ![ws] = "closing"]
    /\ delivered' = NoSends
    /\ lastFrame' = NoFrame
    /\ closeLog' = NoClose
    /\ UNCHANGED <<connections, clock, registered, dropped>>

\* ws.on("error")
OnError(ws) ==
    /\ phase[ws] \in {"open", "closing"}
    /\ phase' = [phase EXCEPT ![ws] = "errored"]
    /\ connections' = unregisterConnection(connections, ws)
    /\ registered' = [registered EXCEPT ![ws] = {}]
    /\ delivered' = NoSends
    /\ lastFrame' = NoFrame
    /\ closeLog' = CloseLogOf(connections, ws)
    /\ UNCHANGED <<clock, dropped>>

\* ws.on("close")
OnClose(ws) ==
    /\ phase[ws] \in {"open", "closing", "errored"}
    /\ phase' = [phase EXCEPT ![ws] = "closed"]
    /\ connections' = unregisterConnection(connections, ws)
    /\ registered' = [registered EXCEPT ![ws] = {}]
    /\ delivered' = NoSends
    /\ lastFrame' = NoFrame
    /\ closeLog' = CloseLogOf(connections, ws)
    /\ UNCHANGED <<clock, dropped>>

vars == <<relayVars, groupVars, raceVars, clientVars>>

\* No client has used the sender-key layer
GroupIdle ==
    /\ senderKeyStates = [b \in {"a", "b", "c"} |-> <<>>]
    /\ skStore = [b \in {"a", "b", "c"} |-> <<>>]
    /\ rnd = 0
    /\ bundles = {}
    /\ packets = <<>>
    /\ encLog = <<>>
    /\ lastCall = [op |-> "none", who |-> "none", result |-> "none", stage |-> "none"]
    /\ rx = [r \in {"b", "c"} |-> [mode |-> "none", count |-> 0, plain |-> <<>>, accepted |-> <<>>]]
    /\ tasks = [t \in {"e1", "e2", "d1", "d2"} |->
                    [pc |-> "idle", arg |-> 0, pt |-> "", local |-> <<>>]]
    /\ pairwise = [derived |-> {}, sealed |-> {}, opened |-> <<>>]
    /\ groupChats = [id \in {"a", "b", "c"} |-> <<>>]
    /\ messageStore = [b \in {"a", "b", "c"} |-> <<>>]
    /\ sendTask = [pc |-> "idle", text |-> "", recipients |-> <<>>, chains |-> <<>>]
    /\ sent = <<>>

RelayNext ==
    \E ws \in Conns :
        \/ OnConnection(ws) /\ UNCHANGED <<groupVars, raceVars, clientVars>>
        \/ OnRegisterFrame(ws) /\ UNCHANGED <<groupVars, raceVars, clientVars>>
        \/ OnEnvelopeFrame(ws) /\ UNCHANGED <<groupVars, raceVars, clientVars>>
        \/ PeerClosing(ws) /\ UNCHANGED <<groupVars, raceVars, clientVars>>
        \/ OnError(ws) /\ UNCHANGED <<groupVars, raceVars, clientVars>>
        \/ OnClose(ws) /\ UNCHANGED <<groupVars, raceVars, clientVars>>

\* The relay alone; it does not depend on how the clients are built
RelayOnlyInit ==
    /\ RelayInit
    /\ impl = "senderKeys"
    /\ GroupIdle

SpecRelay == RelayOnlyInit /\ [][RelayNext]_vars


--------------------------------------------------------------------------
(* Claims about the relay (SpecRelay) *)

\* The last handler run processed a parsed frame of this type
LastWas(type) ==
    /\ lastFrame.ws # "none"
    /\ lastFrame.raw.parses
    /\ lastFrame.raw.msg.type = Str(type)

\* The connections registered under key k that can be sent to
LiveUnder(k) ==
    IF k \in DOMAIN connections
    THEN {c \in connections[k] : readyState(phase, c) = "OPEN"}
    ELSE {}

\* C1: a `message` frame whose `to` key has live connections reaches each of
\* them with every field the sender put in the envelope (the routing field
\* `to` aside) unchanged: in particular groupId, counter and signature.
C1_MessageForwardedVerbatim ==
    LET msg == lastFrame.raw.msg IN
    (LastWas("message") /\ IsString(msg.from) /\ IsString(msg.to)) =>
        \A c \in LiveUnder(msg.to.s) :
            /\ Len(delivered[c]) = 1
            /\ \A f \in Present(msg) \ {"to"} : delivered[c][1][f] = msg[f]

\* C2: an envelope of type group-sender-key-bundle or sender-key addressed to
\* a key with live registered connections is delivered to each of them.
C2_BundleFanOut ==
    LET msg == lastFrame.raw.msg IN
    ((LastWas("group-sender-key-bundle") \/ LastWas("sender-key"))
        /\ IsString(msg.from) /\ IsString(msg.to)) =>
        \A c \in LiveUnder(msg.to.s) :
            /\ Len(delivered[c]) >= 1
            /\ \A i \in 1..Len(delivered[c]) :
                /\ delivered[c][i].from = msg.from
                /\ delivered[c][i].ciphertext = msg.ciphertext
                /\ delivered[c][i].nonce = msg.nonce

\* C3: a `message` frame for a key with no registered connection is delivered
\* to nobody (so nothing comes back on the sender's connection either), and no
\* payload the relay sends later is that frame's: every payload sent carries a
\* timestamp no dropped frame carried.
C3_OfflineMessageDropped ==
    /\ (LastWas("message") /\ RecipientOffline(connections, lastFrame.raw.msg)) =>
            \A c \in Conns : delivered[c] = <<>>
    /\ \A c \in Conns : \A i \in 1..Len(delivered[c]) :
            \A d \in dropped : delivered[c][i].timestamp.s # d[2]

\* C3's case: a message for key k was dropped, a connection registered under
\* k afterwards, and a later message for k is delivered to it.
C3_Witness ==
    \E d \in dropped : \E c \in Conns :
        /\ LastWas("message")
        /\ lastFrame.raw.msg.to = Str(d[1])
        /\ c \in LiveUnder(d[1])
        /\ delivered[c] # <<>>

\* C4: the registry holds no key with an empty set, and a key's set is exactly
\* the connections that registered under it and have not closed or errored since.
C4_RegistryInvariant ==
    /\ \A k \in DOMAIN connections : connections[k] # {}
    /\ \A k \in KeyNames \cup DOMAIN connections :
        LET holders == {c \in Conns : k \in registered[c]} IN
        /\ (k \in DOMAIN connections) <=> (holders # {})
        /\ k \in DOMAIN connections => connections[k] = holders

\* C4's case: after registrations, envelopes, a close and an error, some key
\* is still registered and another has been pruned.
C4_Witness ==
    /\ \E c \in Conns : phase[c] = "closed"
    /\ \E c \in Conns : phase[c] = "errored"
    /\ clock > 0
    /\ DOMAIN connections # {}
    /\ closeLog.keys \ DOMAIN connections # {}

\* C5: a close or error of ws takes ws out of every key's set, prunes each key
\* whose set becomes empty, leaves every other connection's registrations as
\* they were, and a close that follows an error changes nothing.
C5_UnregisterFrame ==
    [][\A ws \in Conns :
        (phase'[ws] # phase[ws] /\ phase'[ws] \in {"errored", "closed"}) =>
            /\ DOMAIN connections' =
                  {k \in DOMAIN connections : connections[k] \ {ws} # {}}
            /\ \A k \in DOMAIN connections' :
                  connections'[k] = connections[k] \ {ws}
            /\ (phase[ws] = "errored" => connections' = connections)]_vars

\* C5's case: a connection registered under two keys has just been closed or
\* has errored, one of the keys was pruned and the other is still held by
\* another connection.
C5_Witness ==
    /\ closeLog.keys = {"A", "B"}
    /\ Cardinality(DOMAIN connections) = 1

\* C6: a group-event whose `to` is a list reaches every OPEN connection of
\* every listed key, once per listed key the connection is registered under;
\* a listed key with no connection does not stop the rest, and a sender that
\* is not itself a recipient gets nothing back.
C6_GroupEventFanOut ==
    LET msg == lastFrame.raw.msg IN
    (LastWas("group-event") /\ IsString(msg.from) /\ IsArray(msg.to)) =>
        \A c \in Conns :
            LET hits == {i \in 1..Len(msg.to.a) :
                            /\ IsString(msg.to.a[i])
                            /\ c \in LiveUnder(msg.to.a[i].s)}
            IN /\ Len(delivered[c]) = Cardinality(hits)
               /\ \A i \in 1..Len(delivered[c]) :
                    /\ delivered[c][i].type = Str("group-event")
                    /\ delivered[c][i].from = msg.from
                    /\ delivered[c][i].event = msg.event

\* C6's case: the list names an offline key before an online one, and the
\* online key's connection got the event while the sender got nothing.
C6_Witness ==
    LET msg == lastFrame.raw.msg IN
    /\ LastWas("group-event")
    /\ msg.to = Arr(<<Str("B"), NotAString, Str("A")>>)
    /\ "B" \notin DOMAIN connections
    /\ \E c \in LiveUnder("A") : c # lastFrame.ws /\ Len(delivered[c]) = 1
    /\ delivered[lastFrame.ws] = <<>>


--------------------------------------------------------------------------
(* libsodium, symbolically.  A key is a random seed and the tags it was     *)
(* hashed with since: crypto_generichash is collision-free and one-way.    *)

\* randombytes_buf(32): the n-th draw
RandomKey(n) == [seed |-> ToString(n), path |-> <<>>]

\* crypto_generichash(32, input, key)
crypto_generichash(input, tag) == [input EXCEPT !.path = Append(@, tag)]

\* crypto_sign_keypair(): the n-th draw
crypto_sign_keypair(n) == [publicKey |-> [pub |-> ToString(n)], privateKey |-> [sec |-> ToString(n)]]

\* the empty byte string signed before the ciphertext when there is no header
NoHeader == [kind |-> "", groupId |-> "", senderIdentityKey |-> "",
             signingPublicKey |-> [variant |-> "", bytes |-> [pub |-> ""]],
             messageIndex |-> -1]

\* crypto_sign_detached(message, sk); the message is header bytes followed by
\* ciphertext bytes (no header in sodium.ts)
crypto_sign_detached(header, ciphertext, sk) ==
    [signer |-> sk.sec, header |-> header, body |-> ciphertext]

\* The mutant of crypto_sign_verify_detached: every signature verifies
crypto_sign_verify_detachedAny(sig, header, ciphertext, pk) == TRUE

crypto_sign_verify_detached(sig, header, ciphertext, pk) ==
    /\ sig.signer = pk.pub
    /\ sig.header = header
    /\ sig.body = ciphertext

\* crypto_secretbox_easy / crypto_aead_xchacha20poly1305_ietf_encrypt
Seal(plaintext, nonce, key) == [key |-> key, nonce |-> nonce, pt |-> plaintext]

\* crypto_secretbox_open_easy / ..._decrypt: throws unless key and nonce are
\* the ones the box was sealed with
OpensAlways(ciphertext, nonce, key) == TRUE

Opens(ciphertext, nonce, key) == ciphertext.key = key /\ ciphertext.nonce = nonce

\* to_base64(bytes, variant)
to_base64(bytes, variant) == [variant |-> variant, bytes |-> bytes]

\* from_base64(text, variant) throws on text of the other variant
Decodes(text, variant) == text.variant = variant
from_base64(text, variant) == text.bytes

--------------------------------------------------------------------------
(* lib/groups/senderKeys.ts (the ratchet) *)

Identities == {"a", "b", "c"}
\* the sending identity and the receiving ones
Sender == "a"
Receivers == {"b", "c"}
\* identity.publicKey
PublicKeyOf(id) == CASE id = "a" -> "A" [] id = "b" -> "B" [] OTHER -> "C"
\* the browser profile (localStorage) an identity lives in
BrowserOf(id) == id
Browsers == {BrowserOf(id) : id \in Identities}
GroupId == "G"
Plaintexts == {"hello", "bye"}

AbsentSecret == [variant |-> "absent", bytes |-> [sec |-> ""]]

\* all.find(s => s.identityId === identityId && s.groupId === groupId && ...)
Matches(st, identityId, groupId, senderIdentityKey) ==
    /\ st.identityId = identityId
    /\ st.groupId = groupId
    /\ st.senderIdentityKey = senderIdentityKey

\* the index findIndex returns, 0 for "not found"
findIndex(all, identityId, groupId, senderIdentityKey) ==
    LET hits == {i \in 1..Len(all) : Matches(all[i], identityId, groupId, senderIdentityKey)}
    IN IF hits = {} THEN 0 ELSE CHOOSE i \in hits : \A j \in hits : i <= j

HasState(all, identityId, groupId, senderIdentityKey) ==
    findIndex(all, identityId, groupId, senderIdentityKey) # 0

findState(all, identityId, groupId, senderIdentityKey) ==
    all[findIndex(all, identityId, groupId, senderIdentityKey)]

\* The mutant of upsertState: an existing record is not replaced
upsertStateKeepExisting(all, state) ==
    LET idx == findIndex(all, state.identityId, state.groupId, state.senderIdentityKey)
    IN IF idx > 0 THEN all ELSE Append(all, state)

upsertState(all, state) ==
    LET idx == findIndex(all, state.identityId, state.groupId, state.senderIdentityKey)
    IN IF idx > 0 THEN [all EXCEPT ![idx] = state] ELSE Append(all, state)

\* The mutant of ratchetChainKey: the next chain key is the chain key
ratchetChainKeyStuck(chainKeyB64) ==
    LET chainKey == from_base64(chainKeyB64, "ORIGINAL") IN
    [nextChainKeyB64 |-> to_base64(chainKey, "ORIGINAL"),
     messageKey |-> crypto_generichash(chainKey, "sender-key-msg")]

ratchetChainKey(chainKeyB64) ==
    LET chainKey == from_base64(chainKeyB64, "ORIGINAL") IN
    [nextChainKeyB64 |->
        to_base64(crypto_generichash(chainKey, "sender-key-chain"), "ORIGINAL"),
     messageKey |-> crypto_generichash(chainKey, "sender-key-msg")]

\* ensureSelfSenderKeyState: the state it returns; n is the number of random
\* draws made before the call
NewSelfState(identityId, groupId, identityPublicKey, n) ==
    LET keypair == crypto_sign_keypair(n + 1)
        chainKeyBytes == RandomKey(n + 2)
    IN [identityId |-> identityId,
        groupId |-> groupId,
        senderIdentityKey |-> identityPublicKey,
        signingPublicKey |-> to_base64(keypair.publicKey, "ORIGINAL"),
        signingSecretKey |-> to_base64(keypair.privateKey, "ORIGINAL"),
        chainKey |-> to_base64(chainKeyBytes, "ORIGINAL"),
        messageIndex |-> 0]

\* existing && existing.signingSecretKey
HasSelfStateNoSecretCheck(all, identityId, groupId, identityPublicKey) ==
    HasState(all, identityId, groupId, identityPublicKey)

HasSelfState(all, identityId, groupId, identityPublicKey) ==
    /\ HasState(all, identityId, groupId, identityPublicKey)
    /\ findState(all, identityId, groupId, identityPublicKey).signingSecretKey # AbsentSecret

ensureSelfSenderKeyState(all, identityId, groupId, identityPublicKey, n) ==
    IF HasSelfState(all, identityId, groupId, identityPublicKey)
    THEN [state |-> findState(all, identityId, groupId, identityPublicKey),
          all |-> all, draws |-> 0]
    ELSE LET state == NewSelfState(identityId, groupId, identityPublicKey, n) IN
         [state |-> state, all |-> upsertState(all, state), draws |-> 2]

makeSenderKeyBundlePayload(selfState) ==
    [kind |-> "sender-key-bundle",
     groupId |-> selfState.groupId,
     senderIdentityKey |-> selfState.senderIdentityKey,
     signingPublicKey |-> selfState.signingPublicKey,
     initialChainKey |-> selfState.chainKey]

\* The mutant of saveSenderKeyBundle: a bundle is stored whatever the progress
saveSenderKeyBundleAlways(all, identityId, payload) ==
    upsertState(all,
        [identityId |-> identityId,
         groupId |-> payload.groupId,
         senderIdentityKey |-> payload.senderIdentityKey,
         signingPublicKey |-> payload.signingPublicKey,
         signingSecretKey |-> AbsentSecret,
         chainKey |-> payload.initialChainKey,
         messageIndex |-> 0])

\* The mutant of saveSenderKeyBundle: the bundle is stored as if its first
\* message had already been consumed
saveSenderKeyBundleIndexOne(all, identityId, payload) ==
    upsertState(all,
        [identityId |-> identityId,
         groupId |-> payload.groupId,
         senderIdentityKey |-> payload.senderIdentityKey,
         signingPublicKey |-> payload.signingPublicKey,
         signingSecretKey |-> AbsentSecret,
         chainKey |-> payload.initialChainKey,
         messageIndex |-> 1])

saveSenderKeyBundle(all, identityId, payload) ==
    IF /\ HasState(all, identityId, payload.groupId, payload.senderIdentityKey)
       /\ findState(all, identityId, payload.groupId, payload.senderIdentityKey).messageIndex > 0
    THEN all
    ELSE upsertState(all,
            [identityId |-> identityId,
             groupId |-> payload.groupId,
             senderIdentityKey |-> payload.senderIdentityKey,
             signingPublicKey |-> payload.signingPublicKey,
             signingSecretKey |-> AbsentSecret,
             chainKey |-> payload.initialChainKey,
             messageIndex |-> 0])

\* const header = JSON.stringify({ kind, groupId, senderIdentityKey, signingPublicKey, messageIndex })
Header(groupId, senderIdentityKey, signingPublicKey, messageIndex) ==
    [kind |-> "group-message", groupId |-> groupId,
     senderIdentityKey |-> senderIdentityKey,
     signingPublicKey |-> signingPublicKey,
     messageIndex |-> messageIndex]

\* The mutant of newIndex: the index is not advanced
newIndexUnadvanced(state) == state.messageIndex

\* const newIndex = state.messageIndex + 1
newIndex(state) == state.messageIndex + 1

\* encryptGroupMessageFromSelf, given that the self state exists: the packet
\* and the updated state; n is the number of random draws made before the call
encryptGroupMessageFromSelf(state, groupId, identityPublicKey, plaintext, n) ==
    LET r == ratchetChainKey(state.chainKey)
        index == newIndex(state)
        nonce == RandomKey(n + 1)
        ciphertext == Seal(plaintext, nonce, r.messageKey)
        header == Header(groupId, identityPublicKey, state.signingPublicKey, index)
        sk == from_base64(state.signingSecretKey, "ORIGINAL")
        signature == crypto_sign_detached(header, ciphertext, sk)
    IN [updated |-> [state EXCEPT !.chainKey = r.nextChainKeyB64, !.messageIndex = index],
        messageKey |-> r.messageKey,
        packet |-> [kind |-> "group-message",
                    groupId |-> groupId,
                    senderIdentityKey |-> identityPublicKey,
                    signingPublicKey |-> state.signingPublicKey,
                    messageIndex |-> index,
                    nonce |-> to_base64(nonce, "ORIGINAL"),
                    ciphertext |-> to_base64(ciphertext, "ORIGINAL"),
                    signature |-> to_base64(signature, "ORIGINAL")]]

\* decryptGroupMessageFromPacket: "null", "throw" or "ok" with the plaintext,
\* the stored states afterwards, and the stage at which the call ended
\* ("open" and "done": crypto_secretbox_open_easy was called)
decryptGroupMessageFromPacketCreating(all, identityId, packet) ==
    IF HasState(all, identityId, packet.groupId, packet.senderIdentityKey)
    THEN [result |-> "null", plaintext |-> "", all |-> all, stage |-> "stale"]
    ELSE [result |-> "null", plaintext |-> "", stage |-> "state",
          all |-> upsertState(all,
                    [identityId |-> identityId,
                     groupId |-> packet.groupId,
                     senderIdentityKey |-> packet.senderIdentityKey,
                     signingPublicKey |-> packet.signingPublicKey,
                     signingSecretKey |-> AbsentSecret,
                     chainKey |-> packet.nonce,
                     messageIndex |-> packet.messageIndex])]

decryptGroupMessageFromPacket(all, identityId, packet) ==
    LET fail(how, stage) ==
            [result |-> how, plaintext |-> "", all |-> all, stage |-> stage]
    IN
    IF packet.kind # "group-message" THEN fail("null", "kind")
    ELSE IF ~HasState(all, identityId, packet.groupId, packet.senderIdentityKey)
    THEN fail("null", "state")
    ELSE
    LET state == findState(all, identityId, packet.groupId, packet.senderIdentityKey) IN
    IF packet.messageIndex <= state.messageIndex THEN fail("null", "stale")
    ELSE IF ~Decodes(state.chainKey, "ORIGINAL") THEN fail("throw", "decode")
    ELSE IF \E t \in {packet.nonce, packet.ciphertext, packet.signature,
                      packet.signingPublicKey} : ~Decodes(t, "ORIGINAL")
    THEN fail("throw", "decode")
    ELSE
    LET r == ratchetChainKey(state.chainKey)
        nonce == from_base64(packet.nonce, "ORIGINAL")
        ciphertext == from_base64(packet.ciphertext, "ORIGINAL")
        sig == from_base64(packet.signature, "ORIGINAL")
        pk == from_base64(packet.signingPublicKey, "ORIGINAL")
        header == Header(packet.groupId, packet.senderIdentityKey,
                         packet.signingPublicKey, packet.messageIndex)
    IN
    IF ~crypto_sign_verify_detached(sig, header, ciphertext, pk)
    THEN fail("null", "signature")
    ELSE IF ~Opens(ciphertext, nonce, r.messageKey) THEN fail("null", "open")
    ELSE [result |-> "ok",
          plaintext |-> ciphertext.pt,
          stage |-> "done",
          all |-> upsertState(all,
                    [state EXCEPT !.chainKey = r.nextChainKeyB64,
                                  !.messageIndex = packet.messageIndex])]


--------------------------------------------------------------------------
(* lib/crypto/sodium.ts: the sender-key functions the chat shell calls *)

SENDER_KEY_PREFIX == "sk:"

getStorageKey(groupId, publicKey) == <<SENDER_KEY_PREFIX, groupId, ":", publicKey>>

AbsentKeyPair ==
    [publicKey |-> [variant |-> "absent", bytes |-> [pub |-> ""]],
     privateKey |-> [variant |-> "absent", bytes |-> [sec |-> ""]]]
AbsentSigPub == [variant |-> "absent", bytes |-> [pub |-> ""]]

\* localStorage.setItem(key, JSON.stringify(state))
setItem(store, key, state) ==
    [k \in DOMAIN store \cup {key} |-> IF k = key THEN state ELSE store[k]]

\* the bundle ensureSenderKey returns for a stored state
PublicBundle(groupId, myCodename, state) ==
    [groupId |-> groupId,
     senderCodename |-> myCodename,
     senderKeyState |-> [chainKey |-> state.chainKey,
                         sigPub |-> state.sigKeyPair.publicKey]]

\* ensureSenderKey; n is the number of random draws made before the call
ensureSenderKey(store, groupId, myPublicKey, myCodename, n) ==
    LET key == getStorageKey(groupId, myPublicKey) IN
    IF key \in DOMAIN store
    THEN [bundle |-> PublicBundle(groupId, myCodename, store[key]),
          store |-> store, draws |-> 0]
    ELSE LET chainKey == RandomKey(n + 1)
             sigKeyPair == crypto_sign_keypair(n + 2)
             state == [chainKey |-> to_base64(chainKey, "URLSAFE_NO_PADDING"),
                       sigKeyPair |->
                          [publicKey |-> to_base64(sigKeyPair.publicKey, "URLSAFE_NO_PADDING"),
                           privateKey |-> to_base64(sigKeyPair.privateKey, "URLSAFE_NO_PADDING")],
                       sigPub |-> AbsentSigPub,
                       counter |-> 0]
         IN [bundle |-> PublicBundle(groupId, myCodename, state),
             store |-> setItem(store, key, state), draws |-> 2]

importSenderKeyState(store, groupId, senderPublicKey, publicState) ==
    setItem(store, getStorageKey(groupId, senderPublicKey),
            [chainKey |-> publicState.chainKey,
             sigKeyPair |-> AbsentKeyPair,
             sigPub |-> publicState.sigPub,
             counter |-> 0])

\* encryptGroupMessageAsSender throws: no item, or no signing key pair in it
EncryptAsSenderThrows(store, groupId, myPublicKey) ==
    LET key == getStorageKey(groupId, myPublicKey) IN
    \/ key \notin DOMAIN store
    \/ store[key].sigKeyPair = AbsentKeyPair
    \/ ~Decodes(store[key].chainKey, "URLSAFE_NO_PADDING")

\* encryptGroupMessageAsSender when it does not throw: what it returns, the
\* AEAD key it used and the item it stores
encryptGroupMessageAsSender(store, groupId, myPublicKey, plaintext, n) ==
    LET key == getStorageKey(groupId, myPublicKey)
        state == store[key]
        chainKey == from_base64(state.chainKey, "URLSAFE_NO_PADDING")
        nonce == RandomKey(n + 1)
        ciphertext == Seal(plaintext, nonce, chainKey)
        sigSecret == from_base64(state.sigKeyPair.privateKey, "URLSAFE_NO_PADDING")
        signature == crypto_sign_detached(NoHeader, ciphertext, sigSecret)
        stored == [state EXCEPT !.counter = @ + 1]
        combined == [nonce |-> nonce, ciphertext |-> ciphertext]
    IN [store |-> setItem(store, key, stored),
        messageKey |-> chainKey,
        payload |-> [counter |-> stored.counter,
                     ciphertext |-> to_base64(combined, "URLSAFE_NO_PADDING"),
                     signature |-> to_base64(signature, "URLSAFE_NO_PADDING")]]

\* decryptGroupMessageAsSender: "throw", or "ok" with the plaintext, and the
\* stage at which the call ended ("open" and "done": the AEAD decrypt was
\* called); it stores nothing
decryptGroupMessageAsSender(store, groupId, senderPublicKey, ciphertextB64, counter, signatureB64) ==
    LET key == getStorageKey(groupId, senderPublicKey)
        fail(stage) == [result |-> "throw", plaintext |-> "", stage |-> stage]
    IN
    IF key \notin DOMAIN store THEN fail("state")
    ELSE IF store[key].sigPub = AbsentSigPub THEN fail("state")
    ELSE IF \E t \in {ciphertextB64, signatureB64} : ~Decodes(t, "URLSAFE_NO_PADDING")
    THEN fail("decode")
    ELSE IF ~Decodes(store[key].sigPub, "URLSAFE_NO_PADDING")
    THEN fail("decode")
    ELSE
    LET state == store[key]
        combined == from_base64(ciphertextB64, "URLSAFE_NO_PADDING")
        nonce == combined.nonce
        ciphertext == combined.ciphertext
        sigPub == from_base64(state.sigPub, "URLSAFE_NO_PADDING")
        signature == from_base64(signatureB64, "URLSAFE_NO_PADDING")
        chainKey == from_base64(state.chainKey, "URLSAFE_NO_PADDING")
    IN
    IF ~crypto_sign_verify_detached(signature, NoHeader, ciphertext, sigPub)
    THEN fail("signature")
    ELSE IF ~Decodes(state.chainKey, "URLSAFE_NO_PADDING") THEN fail("decode")
    ELSE IF ~Opens(ciphertext, nonce, chainKey) THEN fail("open")
    ELSE [result |-> "ok", plaintext |-> ciphertext.pt, stage |-> "done"]


--------------------------------------------------------------------------
(* The sender-key layer as the chat shell drives it: one sender, the       *)
(* receivers, and the bundles and packets that reach the receivers in any  *)
(* order, any number of times.  Each call runs to completion.              *)

Impls == {"senderKeys", "sodium"}

Call(op, who, result) == [op |-> op, who |-> who, result |-> result, stage |-> "none"]

\* a decrypt call, how it ended and at which stage
DecryptCall(op, who, d) == [op |-> op, who |-> who, result |-> d.result, stage |-> d.stage]

\* The sender's index: messageIndex (senderKeys.ts) or counter (sodium.ts);
\* -1 when it has no state
SenderIndex ==
    IF impl = "senderKeys"
    THEN LET all == senderKeyStates[BrowserOf(Sender)] IN
         IF HasState(all, Sender, GroupId, PublicKeyOf(Sender))
         THEN findState(all, Sender, GroupId, PublicKeyOf(Sender)).messageIndex
         ELSE -1
    ELSE LET key == getStorageKey(GroupId, PublicKeyOf(Sender)) IN
         IF key \in DOMAIN skStore[BrowserOf(Sender)]
         THEN skStore[BrowserOf(Sender)][key].counter
         ELSE -1

\* history: a bundle applied while the sender is at index 0 and before any
\* packet starts (or keeps) an in-order run; any other bundle ends it
AfterBundle(h) ==
    IF SenderIndex = 0 /\ h.mode \in {"none", "boot"} /\ h.count = 0
    THEN [h EXCEPT !.mode = "boot"]
    ELSE [h EXCEPT !.mode = "dirty"]

\* history: the i-th packet keeps an in-order run going when it is the next one
AfterPacket(h, i, result, plaintext) ==
    [mode |-> IF h.mode = "boot" /\ i = h.count + 1 THEN "boot" ELSE "dirty",
     count |-> h.count + 1,
     plain |-> IF result = "ok" THEN Append(h.plain, plaintext) ELSE h.plain,
     accepted |-> IF result = "ok" THEN Append(h.accepted, i) ELSE h.accepted]

\* No relay traffic is modelled under the sender-key layer: the relay stays as built
GroupInit ==
    /\ RelayInit
    /\ impl \in Impls
    /\ GroupIdle

\* -------- built with lib/groups/senderKeys.ts --------

\* ensureSelfSenderKeyState + makeSenderKeyBundlePayload: the bundle the sender hands out
SK_Distribute ==
    /\ impl = "senderKeys"
    /\ LET b == BrowserOf(Sender)
           e == ensureSelfSenderKeyState(senderKeyStates[b], Sender, GroupId,
                                         PublicKeyOf(Sender), rnd)
       IN /\ senderKeyStates' = [senderKeyStates EXCEPT ![b] = e.all]
          /\ rnd' = rnd + e.draws
          /\ bundles' = bundles \cup {makeSenderKeyBundlePayload(e.state)}
    /\ lastCall' = Call("ensure", Sender, "ok")
    /\ UNCHANGED <<impl, skStore, packets, encLog, rx, relayVars, raceVars, clientVars>>

\* encryptGroupMessageFromSelf
SK_EncryptCall(plaintext) ==
    /\ impl = "senderKeys"
    /\ LET b == BrowserOf(Sender)
           all == senderKeyStates[b]
       IN IF ~HasSelfState(all, Sender, GroupId, PublicKeyOf(Sender))
          THEN /\ lastCall' = Call("encrypt", Sender, "throw")
               /\ UNCHANGED <<senderKeyStates, rnd, packets, encLog>>
          ELSE LET state == findState(all, Sender, GroupId, PublicKeyOf(Sender))
                   e == encryptGroupMessageFromSelf(state, GroupId,
                            PublicKeyOf(Sender), plaintext, rnd)
               IN /\ senderKeyStates' = [senderKeyStates EXCEPT ![b] = upsertState(all, e.updated)]
                  /\ rnd' = rnd + 1
                  /\ packets' = Append(packets, e.packet)
                  /\ encLog' = Append(encLog,
                        [chainKey |-> from_base64(state.chainKey, "ORIGINAL"),
                         messageKey |-> e.messageKey,
                         before |-> state.messageIndex,
                         wire |-> e.packet.messageIndex,
                         plaintext |-> plaintext])
                  /\ lastCall' = Call("encrypt", Sender, "ok")
    /\ UNCHANGED <<impl, skStore, bundles, rx, relayVars, raceVars, clientVars>>

\* encryptGroupMessageFromSelf, for the messages of one run
SK_Encrypt(plaintext) ==
    /\ Len(packets) < MaxMsgs
    /\ SK_EncryptCall(plaintext)

\* saveSenderKeyBundle, for a bundle that reached receiver r
SK_SaveBundle(r, payload) ==
    /\ impl = "senderKeys"
    /\ Len(rx[r].plain) <= MaxMsgs
    /\ senderKeyStates' = [senderKeyStates EXCEPT ![BrowserOf(r)] =
                              saveSenderKeyBundle(@, r, payload)]
    /\ rx' = [rx EXCEPT ![r] = AfterBundle(@)]
    /\ lastCall' = Call("save", r, "ok")
    /\ UNCHANGED <<impl, skStore, rnd, bundles, packets, encLog, relayVars, raceVars, clientVars>>

\* decryptGroupMessageFromPacket, for the i-th packet reaching receiver r
SK_Decrypt(r, i) ==
    /\ impl = "senderKeys"
    /\ Len(rx[r].plain) <= MaxMsgs
    /\ rx[r].count <= MaxMsgs
    /\ LET d == decryptGroupMessageFromPacket(senderKeyStates[BrowserOf(r)], r, packets[i])
       IN /\ senderKeyStates' = [senderKeyStates EXCEPT ![BrowserOf(r)] = d.all]
          /\ rx' = [rx EXCEPT ![r] = AfterPacket(@, i, d.result, d.plaintext)]
          /\ lastCall' = DecryptCall("decrypt", r, d)
    /\ UNCHANGED <<impl, skStore, rnd, bundles, packets, encLog, relayVars, raceVars, clientVars>>

\* -------- built with lib/crypto/sodium.ts --------

\* ensureSenderKey: the bundle the sender hands out
SO_Ensure ==
    /\ impl = "sodium"
    /\ LET b == BrowserOf(Sender)
           e == ensureSenderKey(skStore[b], GroupId, PublicKeyOf(Sender), "alice", rnd)
       IN /\ skStore' = [skStore EXCEPT ![b] = e.store]
          /\ rnd' = rnd + e.draws
          /\ bundles' = bundles \cup {e.bundle}
    /\ lastCall' = Call("ensure", Sender, "ok")
    /\ UNCHANGED <<impl, senderKeyStates, packets, encLog, rx, relayVars, raceVars, clientVars>>

\* encryptGroupMessageAsSender
SO_Encrypt(plaintext) ==
    /\ impl = "sodium"
    /\ Len(packets) < MaxMsgs
    /\ LET b == BrowserOf(Sender)
           store == skStore[b]
       IN IF EncryptAsSenderThrows(store, GroupId, PublicKeyOf(Sender))
          THEN /\ lastCall' = Call("encrypt", Sender, "throw")
               /\ UNCHANGED <<skStore, rnd, packets, encLog>>
          ELSE LET before == store[getStorageKey(GroupId, PublicKeyOf(Sender))]
                   e == encryptGroupMessageAsSender(store, GroupId,
                            PublicKeyOf(Sender), plaintext, rnd)
               IN /\ skStore' = [skStore EXCEPT ![b] = e.store]
                  /\ rnd' = rnd + 1
                  /\ packets' = Append(packets, e.payload)
                  /\ encLog' = Append(encLog,
                        [chainKey |-> from_base64(before.chainKey, "URLSAFE_NO_PADDING"),
                         messageKey |-> e.messageKey,
                         before |-> before.counter,
                         wire |-> e.payload.counter,
                         plaintext |-> plaintext])
                  /\ lastCall' = Call("encrypt", Sender, "ok")
    /\ UNCHANGED <<impl, senderKeyStates, bundles, rx, relayVars, raceVars, clientVars>>

\* importSenderKeyState, for a bundle from the sender that reached receiver r
SO_Import(r, bundle) ==
    /\ impl = "sodium"
    /\ Len(rx[r].plain) <= MaxMsgs
    /\ skStore' = [skStore EXCEPT ![BrowserOf(r)] =
                      importSenderKeyState(@, bundle.groupId, PublicKeyOf(Sender),
                                           bundle.senderKeyState)]
    /\ rx' = [rx EXCEPT ![r] = AfterBundle(@)]
    /\ lastCall' = Call("save", r, "ok")
    /\ UNCHANGED <<impl, senderKeyStates, rnd, bundles, packets, encLog, relayVars, raceVars, clientVars>>

\* decryptGroupMessageAsSender, for the i-th packet reaching receiver r
SO_Decrypt(r, i) ==
    /\ impl = "sodium"
    /\ Len(rx[r].plain) <= MaxMsgs
    /\ rx[r].count <= MaxMsgs
    /\ LET d == decryptGroupMessageAsSender(skStore[BrowserOf(r)], GroupId,
                    PublicKeyOf(Sender), packets[i].ciphertext,
                    packets[i].counter, packets[i].signature)
       IN /\ rx' = [rx EXCEPT ![r] = AfterPacket(@, i, d.result, d.plaintext)]
          /\ lastCall' = DecryptCall("decrypt", r, d)
    /\ UNCHANGED <<impl, senderKeyStates, skStore, rnd, bundles, packets, encLog, relayVars, raceVars, clientVars>>

GroupNext ==
    \/ SK_Distribute
    \/ \E pt \in Plaintexts : SK_Encrypt(pt)
    \/ \E r \in Receivers : \E payload \in bundles : SK_SaveBundle(r, payload)
    \/ \E r \in Receivers : \E i \in 1..Len(packets) : SK_Decrypt(r, i)
    \/ SO_Ensure
    \/ \E pt \in Plaintexts : SO_Encrypt(pt)
    \/ \E r \in Receivers : \E bundle \in bundles : SO_Import(r, bundle)
    \/ \E r \in Receivers : \E i \in 1..Len(packets) : SO_Decrypt(r, i)

SpecGroup == GroupInit /\ [][GroupNext]_vars

--------------------------------------------------------------------------
(* Claims about the sender-key ratchet *)

SenderHasState == SenderIndex >= 0

\* The sender's chain key as stored now
SenderChainKey ==
    IF impl = "senderKeys"
    THEN from_base64(findState(senderKeyStates[BrowserOf(Sender)], Sender, GroupId,
                               PublicKeyOf(Sender)).chainKey, "ORIGINAL")
    ELSE from_base64(skStore[BrowserOf(Sender)][getStorageKey(GroupId, PublicKeyOf(Sender))].chainKey,
                     "URLSAFE_NO_PADDING")

\* The sender's index and chain key after its first k encryptions
SenderIndexAfter(k) ==
    IF k < Len(encLog) THEN encLog[k + 1].before ELSE SenderIndex

SenderChainKeyAfter(k) ==
    IF k < Len(encLog) THEN encLog[k + 1].chainKey ELSE SenderChainKey

\* C7: after N successful encryptGroupMessageFromSelf calls on a freshly
\* created self state the stored messageIndex is N, and the N chain keys the
\* message keys were derived from are pairwise distinct.
C7_MonotonicAdvance ==
    (impl = "senderKeys" /\ SenderHasState) =>
        /\ SenderIndex = Len(encLog)
        /\ \A i, j \in 1..Len(encLog) : i < j => encLog[i].chainKey # encLog[j].chainKey

C7_Witness ==
    /\ impl = "senderKeys"
    /\ Len(encLog) = MaxMsgs
    /\ SenderIndex = MaxMsgs
    /\ lastCall = Call("encrypt", Sender, "ok")

\* C8: encryptGroupMessageAsSender (sodium.ts) encrypts every message under
\* a one-time message key derived from the chain key and advances the chain
\* key, so no two messages of one (group, sender) are encrypted under the
\* same key.
C8_OneTimeMessageKey ==
    impl = "sodium" =>
        /\ \A i \in 1..Len(encLog) : encLog[i].messageKey # encLog[i].chainKey
        /\ \A i, j \in 1..Len(encLog) :
              i < j => /\ encLog[i].messageKey # encLog[j].messageKey
                       /\ encLog[i].chainKey # encLog[j].chainKey

\* C9 as stated: the counter on the wire is the sender's index before the
\* advance; the first message carries 0 and the k-th (from 0) carries k.
C9_WireCounterBeforeAdvance ==
    \A k \in 1..Len(encLog) :
        /\ encLog[k].wire = encLog[k].before
        /\ encLog[k].wire = k - 1

\* C9 as the code has it: the counter on the wire is the sender's index after
\* the advance; the first message carries 1 and the k-th (from 0) carries
\* k + 1, for packet.messageIndex of encryptGroupMessageFromSelf and for
\* counter of encryptGroupMessageAsSender alike.
C9_WireCounterAfterAdvance ==
    \A k \in 1..Len(encLog) :
        /\ encLog[k].wire = encLog[k].before + 1
        /\ encLog[k].wire = k

C9_Witness ==
    /\ Len(encLog) >= 2
    /\ encLog[1].before = 0 /\ encLog[1].wire = 1
    /\ encLog[2].before = 1 /\ encLog[2].wire = 2
    /\ (IF impl = "senderKeys" THEN packets[2].messageIndex ELSE packets[2].counter) = 2

\* receiver r took the bundle at index 0 and then the first packets in order
InOrderRun(r) == impl = "senderKeys" /\ rx[r].mode = "boot"

ReceiverState(r) ==
    findState(senderKeyStates[BrowserOf(r)], r, GroupId, PublicKeyOf(Sender))

\* C10: when a receiver applied the bundle while the sender was at index 0
\* and the sender's packets then reached it in order without gaps, it has
\* recovered every plaintext, and after the k-th packet its stored index and
\* chain key are the sender's after k encryptions.
C10_BootstrapInOrder ==
    \A r \in Receivers :
        InOrderRun(r) =>
            LET k == rx[r].count IN
            /\ HasState(senderKeyStates[BrowserOf(r)], r, GroupId, PublicKeyOf(Sender))
            /\ rx[r].plain = [i \in 1..k |-> encLog[i].plaintext]
            /\ ReceiverState(r).messageIndex = SenderIndexAfter(k)
            /\ from_base64(ReceiverState(r).chainKey, "ORIGINAL") = SenderChainKeyAfter(k)

C10_Witness ==
    /\ \A r \in Receivers : InOrderRun(r) /\ rx[r].count = MaxMsgs
    /\ Len(encLog) = MaxMsgs
    /\ lastCall.op = "decrypt" /\ lastCall.result = "ok"

\* receiver r holds a state for the sender and the i-th packet's index does
\* not exceed the index stored in it
StaleFor(r, i) ==
    /\ HasState(senderKeyStates[BrowserOf(r)], r, GroupId, PublicKeyOf(Sender))
    /\ packets[i].messageIndex <= ReceiverState(r).messageIndex

\* C13: decryptGroupMessageFromPacket given a packet whose messageIndex does
\* not exceed the stored index returns null and leaves the stored states as
\* they were, and no packet yields its plaintext to a receiver twice.
C13_StaleRejected ==
    /\ [][\A r \in Receivers : \A i \in 1..Len(packets) :
            (SK_Decrypt(r, i) /\ StaleFor(r, i)) =>
                /\ lastCall'.result = "null"
                /\ senderKeyStates' = senderKeyStates
                /\ rx'[r].plain = rx[r].plain]_vars
    /\ [](impl = "senderKeys" =>
            \A r \in Receivers : \A m, n \in 1..Len(rx[r].accepted) :
                m # n => rx[r].accepted[m] # rx[r].accepted[n])

\* C13's case: a receiver that had decrypted the first packet was given it
\* again and got null
C13_Witness ==
    /\ impl = "senderKeys"
    /\ rx["b"].accepted = <<1>>
    /\ rx["b"].count = 2
    /\ Len(packets) = 1
    /\ lastCall.op = "decrypt" /\ lastCall.who = "b" /\ lastCall.result = "null"
    /\ lastCall.stage = "stale"

\* C14: decryptGroupMessageAsSender (sodium.ts) rejects a packet whose
\* counter does not exceed that of a packet already accepted, so that no
\* packet yields its plaintext to a receiver twice.
C14_ReplayRejected ==
    impl = "sodium" =>
        \A r \in Receivers : \A m, n \in 1..Len(rx[r].accepted) :
            m < n => packets[rx[r].accepted[m]].counter < packets[rx[r].accepted[n]].counter

\* C15: decryptGroupMessageFromPacket returns a plaintext only for a packet
\* whose messageIndex is the stored index + 1, and fails without changing the
\* stored states for a packet whose messageIndex is greater, also at a
\* receiver that applied a bundle made after the sender's first messages.
C15_NonSuccessorRejected ==
    [][\A r \in Receivers : \A i \in 1..Len(packets) :
        (/\ SK_Decrypt(r, i)
         /\ HasState(senderKeyStates[BrowserOf(r)], r, GroupId, PublicKeyOf(Sender))
         /\ packets[i].messageIndex # ReceiverState(r).messageIndex + 1) =>
            /\ lastCall'.result # "ok"
            /\ senderKeyStates' = senderKeyStates]_vars

--------------------------------------------------------------------------
(* The sender-key layer with a dishonest group member.  The member holds   *)
(* every bundle the sender handed out and every packet sent, owns a signing *)
(* key pair of its own, and can make any receiver's client run the public   *)
(* functions on bundles and packets of its making.                          *)

\* the member's own Ed25519 key pair and randomness (draw 0 is never an honest draw)
MemberKeypair == crypto_sign_keypair(0)
MemberRandom == RandomKey(0)

\* bundles naming the sender but carrying the member's signing key and chain key
ForgedBundles ==
    {[kind |-> "sender-key-bundle",
      groupId |-> GroupId,
      senderIdentityKey |-> PublicKeyOf(Sender),
      signingPublicKey |-> to_base64(MemberKeypair.publicKey, "ORIGINAL"),
      initialChainKey |-> to_base64(MemberRandom, "ORIGINAL")]}

\* saveSenderKeyBundle for a bundle of the member's making
SK_SaveForgedBundle(r, payload) ==
    /\ impl = "senderKeys"
    /\ Len(rx[r].plain) <= MaxMsgs
    /\ senderKeyStates' = [senderKeyStates EXCEPT ![BrowserOf(r)] =
                              saveSenderKeyBundle(@, r, payload)]
    /\ rx' = [rx EXCEPT ![r].mode = "dirty"]
    /\ lastCall' = Call("saveForged", r, "ok")
    /\ UNCHANGED <<impl, skStore, rnd, bundles, packets, encLog, relayVars, raceVars, clientVars>>

Range(seq) == {seq[i] : i \in 1..Len(seq)}

OtherGroupId == "G2"

\* a packet of the member's making in the sender's name: sealed under the
\* message key of a bundle's chain key, naming and signed with the member's key
MemberPacket(bundle, index) ==
    LET messageKey == ratchetChainKey(bundle.initialChainKey).messageKey
        signingPublicKey == to_base64(MemberKeypair.publicKey, "ORIGINAL")
        ciphertext == Seal("evil", MemberRandom, messageKey)
        header == Header(GroupId, PublicKeyOf(Sender), signingPublicKey, index)
        signature == crypto_sign_detached(header, ciphertext, MemberKeypair.privateKey)
    IN [kind |-> "group-message",
        groupId |-> GroupId,
        senderIdentityKey |-> PublicKeyOf(Sender),
        signingPublicKey |-> signingPublicKey,
        messageIndex |-> index,
        nonce |-> to_base64(MemberRandom, "ORIGINAL"),
        ciphertext |-> to_base64(ciphertext, "ORIGINAL"),
        signature |-> to_base64(signature, "ORIGINAL")]

\* a sent packet with its signature replaced by the member's over the same bytes
Resigned(p) ==
    [p EXCEPT !.signature =
        to_base64(crypto_sign_detached(
                      Header(p.groupId, p.senderIdentityKey, p.signingPublicKey, p.messageIndex),
                      from_base64(p.ciphertext, "ORIGINAL"),
                      MemberKeypair.privateKey), "ORIGINAL")]

\* sent packets replayed under another group id or another index
Regrouped(p) == [p EXCEPT !.groupId = OtherGroupId]
Recounted(p) == [p EXCEPT !.messageIndex = @ + 1]

SK_ForgedPackets ==
    IF impl # "senderKeys" THEN {}
    ELSE {MemberPacket(b, 1) : b \in bundles}
            \cup {Resigned(p) : p \in Range(packets)}
            \cup {Regrouped(p) : p \in Range(packets)}
            \cup {Recounted(p) : p \in Range(packets)}

\* decryptGroupMessageFromPacket for a packet of the member's making
SK_DecryptForged(r, packet) ==
    /\ impl = "senderKeys"
    /\ rx[r].count <= MaxMsgs
    /\ LET d == decryptGroupMessageFromPacket(senderKeyStates[BrowserOf(r)], r, packet)
       IN /\ senderKeyStates' = [senderKeyStates EXCEPT ![BrowserOf(r)] = d.all]
          /\ rx' = [rx EXCEPT ![r] = AfterPacket(@, 0, d.result, d.plaintext)]
          /\ lastCall' = DecryptCall("decryptForged", r, d)
    /\ UNCHANGED <<impl, skStore, rnd, bundles, packets, encLog, relayVars, raceVars, clientVars>>

\* the arguments the chat shell passes to decryptGroupMessageAsSender for an envelope
Envelope(groupId, payload) ==
    [groupId |-> groupId, counter |-> payload.counter,
     ciphertext |-> payload.ciphertext, signature |-> payload.signature]

\* an envelope of the member's making in the sender's name: sealed under a
\* bundle's chain key and signed with the member's key
MemberEnvelope(bundle) ==
    LET chainKey == from_base64(bundle.senderKeyState.chainKey, "URLSAFE_NO_PADDING")
        ciphertext == Seal("evil", MemberRandom, chainKey)
        signature == crypto_sign_detached(NoHeader, ciphertext, MemberKeypair.privateKey)
    IN [groupId |-> bundle.groupId, counter |-> 1,
        ciphertext |-> to_base64([nonce |-> MemberRandom, ciphertext |-> ciphertext],
                                 "URLSAFE_NO_PADDING"),
        signature |-> to_base64(signature, "URLSAFE_NO_PADDING")]

\* a sent envelope with its signature replaced by the member's over the same bytes
ResignedEnvelope(e) ==
    [e EXCEPT !.signature =
        to_base64(crypto_sign_detached(
                      NoHeader,
                      from_base64(e.ciphertext, "URLSAFE_NO_PADDING").ciphertext,
                      MemberKeypair.privateKey), "URLSAFE_NO_PADDING")]

RegroupedEnvelope(e) == [e EXCEPT !.groupId = OtherGroupId]
RecountedEnvelope(e) == [e EXCEPT !.counter = @ + 1]

SentEnvelopes ==
    IF impl # "sodium" THEN {} ELSE {Envelope(GroupId, p) : p \in Range(packets)}

SO_ForgedEnvelopes ==
    IF impl # "sodium" THEN {}
    ELSE {MemberEnvelope(b) : b \in bundles}
            \cup {ResignedEnvelope(e) : e \in SentEnvelopes}
            \cup {RegroupedEnvelope(e) : e \in SentEnvelopes}
            \cup {RecountedEnvelope(e) : e \in SentEnvelopes}

\* decryptGroupMessageAsSender for an envelope of the member's making
SO_DecryptForged(r, e) ==
    /\ impl = "sodium"
    /\ rx[r].count <= MaxMsgs
    /\ LET d == decryptGroupMessageAsSender(skStore[BrowserOf(r)], e.groupId,
                    PublicKeyOf(Sender), e.ciphertext, e.counter, e.signature)
       IN /\ rx' = [rx EXCEPT ![r] = AfterPacket(@, 0, d.result, d.plaintext)]
          /\ lastCall' = DecryptCall("decryptForged", r, d)
    /\ UNCHANGED <<impl, senderKeyStates, skStore, rnd, bundles, packets, encLog, relayVars, raceVars, clientVars>>

\* the honest receiver; the other receiver is the dishonest member
Victim == "b"

AttackNext ==
    \/ SK_Distribute
    \/ \E pt \in Plaintexts : SK_Encrypt(pt)
    \/ \E payload \in bundles : SK_SaveBundle(Victim, payload)
    \/ \E i \in 1..Len(packets) : SK_Decrypt(Victim, i)
    \/ \E payload \in ForgedBundles : SK_SaveForgedBundle(Victim, payload)
    \/ \E packet \in SK_ForgedPackets : SK_DecryptForged(Victim, packet)
    \/ SO_Ensure
    \/ \E pt \in Plaintexts : SO_Encrypt(pt)
    \/ \E bundle \in bundles : SO_Import(Victim, bundle)
    \/ \E i \in 1..Len(packets) : SO_Decrypt(Victim, i)
    \/ \E e \in SO_ForgedEnvelopes : SO_DecryptForged(Victim, e)

SpecAttack == GroupInit /\ [][AttackNext]_vars

--------------------------------------------------------------------------
(* Claims about bundles and packets a receiver must refuse (SpecAttack) *)

\* C16: saveSenderKeyBundle leaves a state whose messageIndex is above 0 as
\* it is, whatever the bundle holds; with no state, or a state at index 0, it
\* stores the bundle's signingPublicKey and initialChainKey at index 0.
C16_AntiRollback ==
    [][\A payload \in bundles \cup ForgedBundles :
        (SK_SaveBundle(Victim, payload) \/ SK_SaveForgedBundle(Victim, payload)) =>
            LET all == senderKeyStates[BrowserOf(Victim)]
                after == senderKeyStates'[BrowserOf(Victim)]
            IN IF /\ HasState(all, Victim, payload.groupId, payload.senderIdentityKey)
                  /\ findState(all, Victim, payload.groupId,
                               payload.senderIdentityKey).messageIndex > 0
               THEN senderKeyStates' = senderKeyStates
               ELSE /\ HasState(after, Victim, payload.groupId, payload.senderIdentityKey)
                    /\ LET st == findState(after, Victim, payload.groupId,
                                           payload.senderIdentityKey)
                       IN /\ st.signingPublicKey = payload.signingPublicKey
                          /\ st.chainKey = payload.initialChainKey
                          /\ st.messageIndex = 0]_vars

\* C16's case: a forged bundle has just been applied at a receiver that had
\* decrypted both packets, and the state is still the sender's at index 2
C16_Witness ==
    /\ lastCall = Call("saveForged", Victim, "ok")
    /\ rx[Victim].accepted = <<1, 2>>
    /\ ReceiverState(Victim).messageIndex = 2
    /\ ReceiverState(Victim).signingPublicKey # to_base64(MemberKeypair.publicKey, "ORIGINAL")
    /\ from_base64(ReceiverState(Victim).chainKey, "ORIGINAL") = SenderChainKey

\* the packet's signature verifies under the signing public key the
\* receiver stores for the packet's (group, sender)
VerifiesUnderStored(r, packet) ==
    LET all == senderKeyStates[BrowserOf(r)] IN
    /\ HasState(all, r, packet.groupId, packet.senderIdentityKey)
    /\ crypto_sign_verify_detached(
          from_base64(packet.signature, "ORIGINAL"),
          Header(packet.groupId, packet.senderIdentityKey,
                 packet.signingPublicKey, packet.messageIndex),
          from_base64(packet.ciphertext, "ORIGINAL"),
          from_base64(findState(all, r, packet.groupId,
                                packet.senderIdentityKey).signingPublicKey, "ORIGINAL"))

\* the envelope's signature verifies under the sigPub the receiver stores
EnvelopeVerifiesUnderStored(r, e) ==
    LET key == getStorageKey(e.groupId, PublicKeyOf(Sender))
        store == skStore[BrowserOf(r)]
    IN /\ key \in DOMAIN store
       /\ crypto_sign_verify_detached(
             from_base64(e.signature, "URLSAFE_NO_PADDING"),
             NoHeader,
             from_base64(e.ciphertext, "URLSAFE_NO_PADDING").ciphertext,
             from_base64(store[key].sigPub, "URLSAFE_NO_PADDING"))

\* C17: a receiver accepts a sender-key packet only if its signature verifies
\* under the signing public key stored for (group, sender); a packet signed
\* with another key is rejected, also when it names that key itself.
C17_StoredKeyVerifies ==
    [][/\ \A packet \in SK_ForgedPackets :
            (SK_DecryptForged(Victim, packet) /\ lastCall'.result = "ok")
                => VerifiesUnderStored(Victim, packet)
       /\ \A e \in SO_ForgedEnvelopes :
            (SO_DecryptForged(Victim, e) /\ lastCall'.result = "ok")
                => EnvelopeVerifiesUnderStored(Victim, e)]_vars

\* decryptGroupMessageFromPacket binds the signature to group id and index
SK_SignatureBound ==
    \A p \in Range(packets) : \A packet \in {Regrouped(p), Recounted(p)} :
        SK_DecryptForged(Victim, packet) => lastCall'.result # "ok"

\* decryptGroupMessageAsSender binds the signature to group id and counter
SO_SignatureBound ==
    \A e \in SentEnvelopes : \A f \in {RegroupedEnvelope(e), RecountedEnvelope(e)} :
        SO_DecryptForged(Victim, f) => lastCall'.result # "ok"

\* C18: a signature the sender made for (groupId, counter, ciphertext) fails
\* at the receiver when ciphertext and signature come with another groupId
\* or another counter, in senderKeys.ts and in sodium.ts alike.
C18_SignatureBinding == [][SK_SignatureBound /\ SO_SignatureBound]_vars

\* the signature is not one by the key pk over header and ciphertext
BadSignature(sig, header, ciphertext, pk) ==
    \/ sig.signer # pk.pub
    \/ sig.header # header
    \/ sig.body # ciphertext

\* the signature check of decryptGroupMessageFromPacket cannot succeed
SK_SignatureFails(packet) ==
    BadSignature(from_base64(packet.signature, "ORIGINAL"),
                 Header(packet.groupId, packet.senderIdentityKey,
                        packet.signingPublicKey, packet.messageIndex),
                 from_base64(packet.ciphertext, "ORIGINAL"),
                 from_base64(packet.signingPublicKey, "ORIGINAL"))

\* the signature check of decryptGroupMessageAsSender cannot succeed
SO_SignatureFails(r, e) ==
    LET key == getStorageKey(e.groupId, PublicKeyOf(Sender))
        store == skStore[BrowserOf(r)]
    IN \/ key \notin DOMAIN store
       \/ BadSignature(from_base64(e.signature, "URLSAFE_NO_PADDING"),
                       NoHeader,
                       from_base64(e.ciphertext, "URLSAFE_NO_PADDING").ciphertext,
                       from_base64(store[key].sigPub, "URLSAFE_NO_PADDING"))

\* C19: in both receiver implementations a call whose signature check fails
\* never reaches the AEAD open, fails, and leaves the stored sender-key
\* states as they were.
C19_VerifyBeforeOpen ==
    [][/\ \A packet \in SK_ForgedPackets :
            (SK_DecryptForged(Victim, packet) /\ SK_SignatureFails(packet)) =>
                /\ lastCall'.stage \notin {"open", "done"}
                /\ lastCall'.result # "ok"
                /\ senderKeyStates' = senderKeyStates
       /\ \A e \in SO_ForgedEnvelopes :
            (SO_DecryptForged(Victim, e) /\ SO_SignatureFails(Victim, e)) =>
                /\ lastCall'.stage \notin {"open", "done"}
                /\ lastCall'.result # "ok"
                /\ skStore' = skStore]_vars

\* C19's case: the receiver, ready for the sender's first packet, was given
\* a packet whose signature does not verify and the call ended at the check
C19_Witness ==
    /\ lastCall.op = "decryptForged"
    /\ lastCall.stage = "signature"
    /\ lastCall.result \in {"null", "throw"}
    /\ Len(packets) >= 1
    /\ rx[Victim].accepted = <<>>
    /\ IF impl = "senderKeys"
       THEN /\ HasState(senderKeyStates[BrowserOf(Victim)], Victim, GroupId, PublicKeyOf(Sender))
            /\ ReceiverState(Victim).chainKey = to_base64(encLog[1].chainKey, "ORIGINAL")
       ELSE getStorageKey(GroupId, PublicKeyOf(Sender)) \in DOMAIN skStore[BrowserOf(Victim)]

--------------------------------------------------------------------------
(* Receipt of group-sender-key-bundle envelopes: socket.onmessage of        *)
(* app/page.tsx (the build on lib/groups/senderKeys) and of the chat shell  *)
(* (the build on lib/crypto/sodium).                                        *)

\* identity.secretKey of the identity whose public key is publicKey
SecretKeyOf(id) == [sec |-> PublicKeyOf(id)]

crypto_box_beforenmOneSided(theirPub, mySecret) == [shared |-> {theirPub}]

\* crypto_box_beforenm(theirPub, mySecret): the same key on both sides
crypto_box_beforenm(theirPub, mySecret) == [shared |-> {theirPub, mySecret.sec}]

deriveSessionKey(mySecretKey, theirPublicKey) ==
    [key |-> to_base64(crypto_box_beforenm(theirPublicKey, mySecretKey), "URLSAFE_NO_PADDING"),
     theirPublicKey |-> theirPublicKey]

\* JSON.stringify of a bundle, and JSON.parse of such a text
Stringify(bundle) == [json |-> bundle]
Parse(text) == text.json

\* encryptMessage(sharedKeyB64, plaintext); n is the number of random draws made before
encryptMessage(sharedKeyB64, plaintext, n) ==
    LET sharedKey == from_base64(sharedKeyB64, "URLSAFE_NO_PADDING")
        nonce == RandomKey(n + 1)
    IN [ciphertext |-> to_base64(Seal(plaintext, nonce, sharedKey), "URLSAFE_NO_PADDING"),
        nonce |-> to_base64(nonce, "URLSAFE_NO_PADDING")]

decryptMessageUnchecked(sharedKeyB64, nonceB64, ciphertextB64) ==
    [result |-> "ok", plaintext |-> from_base64(ciphertextB64, "URLSAFE_NO_PADDING").pt]

\* decryptMessage(sharedKeyB64, nonceB64, ciphertextB64): throws, or the plaintext
decryptMessage(sharedKeyB64, nonceB64, ciphertextB64) ==
    IF \E t \in {sharedKeyB64, nonceB64, ciphertextB64} : ~Decodes(t, "URLSAFE_NO_PADDING")
    THEN [result |-> "throw", plaintext |-> Stringify("")]
    ELSE LET ciphertext == from_base64(ciphertextB64, "URLSAFE_NO_PADDING") IN
         IF Opens(ciphertext, from_base64(nonceB64, "URLSAFE_NO_PADDING"),
                  from_base64(sharedKeyB64, "URLSAFE_NO_PADDING"))
         THEN [result |-> "ok", plaintext |-> ciphertext.pt]
         ELSE [result |-> "throw", plaintext |-> Stringify("")]

\* a field the frame does not have
Missing == to_base64([none |-> ""], "undefined")
IsMissing(field) == field.variant = "undefined"

\* the frame handleSend sends for a bundle: ciphertext and nonce, no bundle field
SealedFrame(from, secretKey, to, bundle, n) ==
    LET e == encryptMessage(deriveSessionKey(secretKey, to).key, Stringify(bundle), n)
    IN [type |-> "group-sender-key-bundle", from |-> from,
        ciphertext |-> e.ciphertext, nonce |-> e.nonce,
        bundle |-> Missing]

\* a frame carrying the bundle in the clear
PlainFrame(from, bundle) ==
    [type |-> "group-sender-key-bundle", from |-> from,
     ciphertext |-> Missing, nonce |-> Missing,
     bundle |-> to_base64(bundle, "json")]

\* a frame with neither
EmptyFrame(from) ==
    [type |-> "group-sender-key-bundle", from |-> from,
     ciphertext |-> Missing, nonce |-> Missing, bundle |-> Missing]

\* the bundle the dishonest member makes up in the build at hand
MemberBundle ==
    IF impl = "senderKeys"
    THEN CHOOSE b \in ForgedBundles : TRUE
    ELSE [groupId |-> GroupId,
          senderCodename |-> "alice",
          senderKeyState |->
              [chainKey |-> to_base64(MemberRandom, "URLSAFE_NO_PADDING"),
               sigPub |-> to_base64(MemberKeypair.publicKey, "URLSAFE_NO_PADDING")]]

Member == "c"

\* the frames that can reach receiver r: the sender's, sealed for r; the
\* member's own, sealed for r; a frame in the sender's name sealed with the
\* member's key; and a frame in the sender's name with the bundle in the clear
BundleFramesFor(r) ==
    {SealedFrame(PublicKeyOf(Sender), SecretKeyOf(Sender), PublicKeyOf(r), b, rnd) : b \in bundles}
        \cup {SealedFrame(PublicKeyOf(Member), SecretKeyOf(Member), PublicKeyOf(r), MemberBundle, rnd),
              SealedFrame(PublicKeyOf(Sender), SecretKeyOf(Member), PublicKeyOf(r), MemberBundle, rnd),
              PlainFrame(PublicKeyOf(Sender), MemberBundle),
              EmptyFrame(PublicKeyOf(Sender))}


\* applySenderKeyBundle is imported by app/page.tsx from lib/groups/senderKeys
\* but is not among the sources; it is taken to be the applyBundle operation,
\* which saveSenderKeyBundle implements for the local identity
applySenderKeyBundle(all, identityId, bundle) == saveSenderKeyBundle(all, identityId, bundle)

\* app/page.tsx socket.onmessage, data.type === "group-sender-key-bundle"
PageOnBundle(r, data) ==
    /\ impl = "senderKeys"
    /\ IF ~IsMissing(data.ciphertext) /\ ~IsMissing(data.nonce)
       THEN LET sharedKey == deriveSessionKey(SecretKeyOf(r), data.from).key
                d == decryptMessage(sharedKey, data.nonce, data.ciphertext)
            IN IF d.result = "ok"
               THEN /\ senderKeyStates' = [senderKeyStates EXCEPT ![BrowserOf(r)] =
                                             applySenderKeyBundle(@, r, Parse(d.plaintext))]
                    /\ lastCall' = Call("bundle", r, "applied")
               ELSE /\ lastCall' = Call("bundle", r, "failed")
                    /\ UNCHANGED senderKeyStates
       ELSE IF ~IsMissing(data.bundle)
       THEN /\ senderKeyStates' = [senderKeyStates EXCEPT ![BrowserOf(r)] =
                                     applySenderKeyBundle(@, r, from_base64(data.bundle, "json"))]
            /\ lastCall' = Call("bundle", r, "appliedPlain")
       ELSE /\ lastCall' = Call("bundle", r, "ignored")
            /\ UNCHANGED senderKeyStates
    /\ UNCHANGED <<impl, skStore, rnd, bundles, packets, encLog, rx, relayVars, raceVars, clientVars>>

\* the chat shell's socket.onmessage, data.type === "group-sender-key-bundle"
ShellOnBundle(r, data) ==
    /\ impl = "sodium"
    /\ LET sharedKey == deriveSessionKey(SecretKeyOf(r), data.from).key
           d == decryptMessage(sharedKey, data.nonce, data.ciphertext)
       IN IF d.result = "ok"
          THEN LET bundle == Parse(d.plaintext) IN
               /\ skStore' = [skStore EXCEPT ![BrowserOf(r)] =
                                 importSenderKeyState(@, bundle.groupId, data.from,
                                                      bundle.senderKeyState)]
               /\ lastCall' = Call("bundle", r, "applied")
          ELSE /\ lastCall' = Call("bundle", r, "failed")
               /\ UNCHANGED skStore
    /\ UNCHANGED <<impl, senderKeyStates, rnd, bundles, packets, encLog, rx, relayVars, raceVars, clientVars>>

BundleNext ==
    \/ SK_Distribute
    \/ \E pt \in Plaintexts : SK_Encrypt(pt)
    \/ \E data \in BundleFramesFor(Victim) : PageOnBundle(Victim, data)
    \/ \E i \in 1..Len(packets) : SK_Decrypt(Victim, i)
    \/ SO_Ensure
    \/ \E pt \in Plaintexts : SO_Encrypt(pt)
    \/ \E data \in BundleFramesFor(Victim) : ShellOnBundle(Victim, data)
    \/ \E i \in 1..Len(packets) : SO_Decrypt(Victim, i)

SpecBundle == GroupInit /\ [][BundleNext]_vars

\* the frame carries ciphertext and nonce and they open under the pairwise
\* session key of (receiver's secret key, data.from)
PairwiseDecrypts(r, data) ==
    /\ ~IsMissing(data.ciphertext)
    /\ ~IsMissing(data.nonce)
    /\ Opens(from_base64(data.ciphertext, "URLSAFE_NO_PADDING"),
             from_base64(data.nonce, "URLSAFE_NO_PADDING"),
             crypto_box_beforenm(data.from, SecretKeyOf(r)))

\* C20: a group-sender-key-bundle envelope that fails or skips the pairwise
\* decryption never changes a stored sender-key state.
C20_BundleOnlyAfterPairwiseDecrypt ==
    [][\A data \in BundleFramesFor(Victim) :
        ((PageOnBundle(Victim, data) \/ ShellOnBundle(Victim, data))
            /\ ~PairwiseDecrypts(Victim, data)) =>
                /\ senderKeyStates' = senderKeyStates
                /\ skStore' = skStore]_vars

(***************************************************************************)
(* Interleaved calls of lib/groups/senderKeys.ts.                          *)
(* encryptGroupMessageFromSelf and decryptGroupMessageFromPacket are async *)
(* functions.  Each suspends at `await ensureSodiumReady()` before it      *)
(* touches the storage, reads the state with findState, suspends again at  *)
(* `await ratchetChainKey(...)`, and stores the advanced state with        *)
(* upsertState, which loads the array afresh.  Other calls run while one   *)
(* is suspended.  saveSenderKeyBundle has no await and stays one step.     *)
(***************************************************************************)

EncryptTasks == {"e1", "e2"}
DecryptTasks == {"d1", "d2"}

IdleTask == [pc |-> "idle", arg |-> 0, pt |-> "", local |-> <<>>]

InFlight(ts) == {t \in ts : tasks[t].pc # "idle"}

\* encryptGroupMessageFromSelf is called; it runs up to `await ensureSodiumReady()`
EncStart(t, plaintext) ==
    /\ impl = "senderKeys"
    /\ tasks[t].pc = "idle"
    /\ Len(packets) + Cardinality(InFlight(EncryptTasks)) < MaxMsgs
    /\ tasks' = [tasks EXCEPT ![t] = [IdleTask EXCEPT !.pc = "ready", !.pt = plaintext]]
    /\ UNCHANGED <<groupVars, relayVars, clientVars>>

\* findState, the throw when there is no state to send with, then it runs
\* up to `await ratchetChainKey(state.chainKey)`
EncRead(t) ==
    /\ impl = "senderKeys"
    /\ tasks[t].pc = "ready"
    /\ LET all == senderKeyStates[BrowserOf(Sender)]
       IN IF ~HasSelfState(all, Sender, GroupId, PublicKeyOf(Sender))
          THEN /\ tasks' = [tasks EXCEPT ![t] = IdleTask]
               /\ lastCall' = Call("encrypt", Sender, "throw")
          ELSE /\ tasks' = [tasks EXCEPT ![t].pc = "ratchet", ![t].local = all]
               /\ UNCHANGED lastCall
    /\ UNCHANGED <<impl, senderKeyStates, skStore, rnd, bundles, packets, encLog, rx, relayVars, clientVars>>

\* the rest of encryptGroupMessageFromSelf, from the state it read before
\* the await: sign, seal, upsertState into the storage as it is now
EncWrite(t) ==
    /\ impl = "senderKeys"
    /\ tasks[t].pc = "ratchet"
    /\ LET b == BrowserOf(Sender)
           state == findState(tasks[t].local, Sender, GroupId, PublicKeyOf(Sender))
           e == encryptGroupMessageFromSelf(state, GroupId, PublicKeyOf(Sender),
                                            tasks[t].pt, rnd)
       IN /\ senderKeyStates' = [senderKeyStates EXCEPT ![b] = upsertState(@, e.updated)]
          /\ rnd' = rnd + 1
          /\ packets' = Append(packets, e.packet)
          /\ encLog' = Append(encLog,
                [chainKey |-> from_base64(state.chainKey, "ORIGINAL"),
                 messageKey |-> e.messageKey,
                 before |-> state.messageIndex,
                 wire |-> e.packet.messageIndex,
                 plaintext |-> tasks[t].pt])
          /\ lastCall' = Call("encrypt", Sender, "ok")
    /\ tasks' = [tasks EXCEPT ![t] = IdleTask]
    /\ UNCHANGED <<impl, skStore, bundles, rx, relayVars, clientVars>>

\* the i-th packet reaches the Victim's handler, which calls
\* decryptGroupMessageFromPacket; it runs up to `await ensureSodiumReady()`
DecStart(t, i) ==
    /\ impl = "senderKeys"
    /\ tasks[t].pc = "idle"
    /\ rx[Victim].count < MaxMsgs
    /\ tasks' = [tasks EXCEPT ![t] = [IdleTask EXCEPT !.pc = "ready", !.arg = i]]
    /\ rx' = [rx EXCEPT ![Victim] = AfterPacket(@, i, "pending", "")]
    /\ UNCHANGED <<impl, senderKeyStates, skStore, rnd, bundles, packets, encLog,
                   lastCall, relayVars, clientVars>>

\* the kind check, findState, the no-state and stale returns, then it runs
\* up to `await ratchetChainKey(state.chainKey)`
DecRead(t) ==
    /\ impl = "senderKeys"
    /\ tasks[t].pc = "ready"
    /\ LET all == senderKeyStates[BrowserOf(Victim)]
           d == decryptGroupMessageFromPacket(all, Victim, packets[tasks[t].arg])
       IN IF d.stage \in {"kind", "state", "stale"}
          THEN /\ tasks' = [tasks EXCEPT ![t] = IdleTask]
               /\ lastCall' = DecryptCall("decrypt", Victim, d)
          ELSE /\ tasks' = [tasks EXCEPT ![t].pc = "ratchet", ![t].local = all]
               /\ UNCHANGED lastCall
    /\ UNCHANGED <<impl, senderKeyStates, skStore, rnd, bundles, packets, encLog, rx, relayVars, clientVars>>

\* the rest of decryptGroupMessageFromPacket, from the state it read before
\* the await: verify, open, upsertState into the storage as it is now
DecWrite(t) ==
    /\ impl = "senderKeys"
    /\ tasks[t].pc = "ratchet"
    /\ LET b == BrowserOf(Victim)
           packet == packets[tasks[t].arg]
           d == decryptGroupMessageFromPacket(tasks[t].local, Victim, packet)
       IN /\ IF d.result = "ok"
             THEN /\ senderKeyStates' = [senderKeyStates EXCEPT ![b] =
                         upsertState(@, findState(d.all, Victim, packet.groupId,
                                                  packet.senderIdentityKey))]
                  /\ rx' = [rx EXCEPT ![Victim].plain = Append(@, d.plaintext),
                                      ![Victim].accepted = Append(@, tasks[t].arg)]
             ELSE UNCHANGED <<senderKeyStates, rx>>
          /\ lastCall' = DecryptCall("decrypt", Victim, d)
    /\ tasks' = [tasks EXCEPT ![t] = IdleTask]
    /\ UNCHANGED <<impl, skStore, rnd, bundles, packets, encLog, relayVars, clientVars>>

RaceInit ==
    /\ GroupInit
    /\ impl = "senderKeys"

RaceNext ==
    \/ SK_Distribute
    \/ \E payload \in bundles : SK_SaveBundle(Victim, payload)
    \/ \E t \in EncryptTasks, plaintext \in Plaintexts : EncStart(t, plaintext)
    \/ \E t \in EncryptTasks : EncRead(t)
    \/ \E t \in EncryptTasks : EncWrite(t)
    \/ \E t \in DecryptTasks, i \in 1..Len(packets) : DecStart(t, i)
    \/ \E t \in DecryptTasks : DecRead(t)
    \/ \E t \in DecryptTasks : DecWrite(t)

SpecRace == RaceInit /\ [][RaceNext]_vars

\* the sender's calls so far ran one after the other: the k-th packet carries k
SenderSerialized == \A k \in 1..Len(encLog) : encLog[k].wire = k

(* C11: two encryptGroupMessageFromSelf calls of one sender that interleave at
   their await points never read the same chain key: any two packets carry
   different messageIndex values and were sealed under different message
   keys, and once the calls are over the stored index has advanced by one
   per packet *)
C11_SerializedSenderAdvances ==
    /\ \A i, j \in 1..Len(encLog) :
          i < j => /\ encLog[i].chainKey # encLog[j].chainKey
                   /\ packets[i].messageIndex # packets[j].messageIndex
                   /\ encLog[i].messageKey # encLog[j].messageKey
    /\ (InFlight(EncryptTasks) = {} /\ SenderHasState) => SenderIndex = Len(encLog)

(* C12: packets i and i+1 of a serialized sender reach, in order, a receiver
   that took the bundle at index 0, and the decryptGroupMessageFromPacket
   calls interleave at their await points: once the calls are over every
   packet that arrived was decrypted, and the receiver stands at the index
   of the last one with the sender's chain key *)
C12_SerializedReceiverAdvances ==
    (/\ SenderSerialized
     /\ rx[Victim].mode = "boot"
     /\ InFlight(DecryptTasks) = {}) =>
        /\ rx[Victim].plain = [k \in 1..rx[Victim].count |-> encLog[k].plaintext]
        /\ rx[Victim].count > 0 =>
              /\ ReceiverState(Victim).messageIndex = rx[Victim].count
              /\ from_base64(ReceiverState(Victim).chainKey, "ORIGINAL")
                     = SenderChainKeyAfter(rx[Victim].count)

(***************************************************************************)
(* A member who joins late: all it ever gets from the sender is the bundle *)
(* the sender hands out now, after the packets sent so far.                *)
(***************************************************************************)

Joiner == "c"

\* the bundle the sender's client produces in the current state
LateBundle ==
    IF impl = "senderKeys"
    THEN makeSenderKeyBundlePayload(
             ensureSelfSenderKeyState(senderKeyStates[BrowserOf(Sender)], Sender, GroupId,
                                      PublicKeyOf(Sender), rnd).state)
    ELSE ensureSenderKey(skStore[BrowserOf(Sender)], GroupId, PublicKeyOf(Sender),
                         "alice", rnd).bundle

\* the joiner, with nothing stored, applies that bundle and is handed the j-th packet
LateJoinerDecrypt(j) ==
    IF impl = "senderKeys"
    THEN decryptGroupMessageFromPacket(saveSenderKeyBundle(<<>>, Joiner, LateBundle),
                                       Joiner, packets[j])
    ELSE decryptGroupMessageAsSender(
             importSenderKeyState(<<>>, LateBundle.groupId, PublicKeyOf(Sender),
                                  LateBundle.senderKeyState),
             GroupId, PublicKeyOf(Sender), packets[j].ciphertext,
             packets[j].counter, packets[j].signature)

(* C21: a receiver whose only knowledge of the sender is a bundle produced
   after the sender's k-th message decrypts none of the packets 1..k, with
   decryptGroupMessageFromPacket and with decryptGroupMessageAsSender *)
C21_NoRetroactiveAccess ==
    \A j \in 1..Len(packets) : LateJoinerDecrypt(j).result # "ok"

\* the chain key a bundle carries
BundleChainKey(bundle) ==
    IF impl = "senderKeys"
    THEN from_base64(bundle.initialChainKey, "ORIGINAL")
    ELSE from_base64(bundle.senderKeyState.chainKey, "URLSAFE_NO_PADDING")

\* this step is the sender's ensure call, made when it already has a state
EnsureAgain == (SK_Distribute \/ SO_Ensure) /\ SenderHasState

\* an ensure call on an existing state stores nothing, draws no randomness and
\* hands out the bundle the next call will hand out as well
EnsureRepeats ==
    EnsureAgain =>
        /\ senderKeyStates' = senderKeyStates
        /\ skStore' = skStore
        /\ rnd' = rnd
        /\ LateBundle \in bundles'
        /\ LateBundle' = LateBundle

\* that bundle carries the stored chain key, which after the first
\* encryption is no longer the seed the state was created with
EnsureGivesCurrent ==
    EnsureAgain =>
        /\ BundleChainKey(LateBundle) = SenderChainKey
        /\ Len(encLog) >= 1 => BundleChainKey(LateBundle) # encLog[1].chainKey

(* C22: ensureSelfState is idempotent: repeated calls with no encryption in
   between return the same bundle and leave the stored state unchanged, and
   a call made after k encryptions returns the current chain key, not the
   original seed, for ensureSelfSenderKeyState + makeSenderKeyBundlePayload
   and for ensureSenderKey *)
C22_EnsureIdempotent == [][EnsureRepeats /\ EnsureGivesCurrent]_vars

(***************************************************************************)
(* Bundles and packets handed to the sender's own client: the functions of *)
(* senderKeys.ts take any payload, also one whose senderIdentityKey is the *)
(* local identity's key.                                                   *)
(***************************************************************************)

MaxRandom == 4

SelfState ==
    findState(senderKeyStates[BrowserOf(Sender)], Sender, GroupId, PublicKeyOf(Sender))

SenderHasSelfState ==
    /\ impl = "senderKeys"
    /\ HasSelfState(senderKeyStates[BrowserOf(Sender)], Sender, GroupId, PublicKeyOf(Sender))

\* saveSenderKeyBundle called for the sender's identity
SK_SaveAtSender(payload) ==
    /\ impl = "senderKeys"
    /\ rnd <= MaxRandom
    /\ senderKeyStates' = [senderKeyStates EXCEPT ![BrowserOf(Sender)] =
                              saveSenderKeyBundle(@, Sender, payload)]
    /\ lastCall' = Call("saveSelf", Sender, "ok")
    /\ UNCHANGED <<impl, skStore, rnd, bundles, packets, encLog, rx, relayVars, raceVars, clientVars>>

\* decryptGroupMessageFromPacket called for the sender's identity
SK_DecryptAtSender(i) ==
    /\ impl = "senderKeys"
    /\ LET d == decryptGroupMessageFromPacket(senderKeyStates[BrowserOf(Sender)],
                                              Sender, packets[i])
       IN /\ senderKeyStates' = [senderKeyStates EXCEPT ![BrowserOf(Sender)] = d.all]
          /\ lastCall' = DecryptCall("decryptSelf", Sender, d)
    /\ UNCHANGED <<impl, skStore, rnd, bundles, packets, encLog, rx, relayVars, raceVars, clientVars>>

SelfInit ==
    /\ GroupInit
    /\ impl = "senderKeys"

SelfNext ==
    \/ SK_Distribute
    \/ \E pt \in Plaintexts : SK_Encrypt(pt)
    \/ \E payload \in bundles : SK_SaveBundle(Victim, payload)
    \/ \E i \in 1..Len(packets) : SK_Decrypt(Victim, i)
    \/ \E payload \in bundles \cup ForgedBundles : SK_SaveAtSender(payload)
    \/ \E i \in 1..Len(packets) : SK_DecryptAtSender(i)

SpecSelf == SelfInit /\ [][SelfNext]_vars

(* C23: once a self state exists for (identity, group), its signingPublicKey
   and signingSecretKey never change under any ensureSelfSenderKeyState,
   encryptGroupMessageFromSelf, saveSenderKeyBundle or
   decryptGroupMessageFromPacket call, saveSenderKeyBundle calls whose bundle
   names the local identity's own key included *)
C23_SigningKeyStable ==
    [][SenderHasSelfState =>
          /\ SenderHasSelfState'
          /\ SelfState'.signingPublicKey = SelfState.signingPublicKey
          /\ SelfState'.signingSecretKey = SelfState.signingSecretKey]_vars

(***************************************************************************)
(* Two local identities in one browser: the identity vault keeps several   *)
(* identities, and both sender-key stores live in that browser's           *)
(* localStorage.  CoResident is a member of the group whose client runs in *)
(* the sender's browser; it receives the sender's bundles and packets.     *)
(* The sender's own client may be handed its bundle back as well.          *)
(***************************************************************************)

CoResident == "d"
SharedBrowser == BrowserOf(Sender)

\* what the sender's client finds stored for its own key
SenderSelfRecord ==
    IF impl = "senderKeys" THEN SelfState
    ELSE skStore[SharedBrowser][getStorageKey(GroupId, PublicKeyOf(Sender))]

\* saveSenderKeyBundle, the co-resident identity active
SK_SaveCoResident(payload) ==
    /\ impl = "senderKeys"
    /\ senderKeyStates' = [senderKeyStates EXCEPT ![SharedBrowser] =
                              saveSenderKeyBundle(@, CoResident, payload)]
    /\ lastCall' = Call("save", CoResident, "ok")
    /\ UNCHANGED <<impl, skStore, rnd, bundles, packets, encLog, rx, relayVars, raceVars, clientVars>>

\* decryptGroupMessageFromPacket, the co-resident identity active
SK_DecryptCoResident(i) ==
    /\ impl = "senderKeys"
    /\ LET d == decryptGroupMessageFromPacket(senderKeyStates[SharedBrowser],
                                              CoResident, packets[i])
       IN /\ senderKeyStates' = [senderKeyStates EXCEPT ![SharedBrowser] = d.all]
          /\ lastCall' = DecryptCall("decrypt", CoResident, d)
    /\ UNCHANGED <<impl, skStore, rnd, bundles, packets, encLog, rx, relayVars, raceVars, clientVars>>

\* importSenderKeyState, the co-resident identity active
SO_ImportCoResident(bundle) ==
    /\ impl = "sodium"
    /\ skStore' = [skStore EXCEPT ![SharedBrowser] =
                      importSenderKeyState(@, bundle.groupId, PublicKeyOf(Sender),
                                           bundle.senderKeyState)]
    /\ lastCall' = Call("save", CoResident, "ok")
    /\ UNCHANGED <<impl, senderKeyStates, rnd, bundles, packets, encLog, rx, relayVars, raceVars, clientVars>>

\* decryptGroupMessageAsSender, the co-resident identity active
SO_DecryptCoResident(i) ==
    /\ impl = "sodium"
    /\ LET d == decryptGroupMessageAsSender(skStore[SharedBrowser], GroupId,
                    PublicKeyOf(Sender), packets[i].ciphertext,
                    packets[i].counter, packets[i].signature)
       IN lastCall' = DecryptCall("decrypt", CoResident, d)
    /\ UNCHANGED <<impl, senderKeyStates, skStore, rnd, bundles, packets, encLog, rx,
                   relayVars, raceVars, clientVars>>

SharedNext ==
    \/ SK_Distribute
    \/ \E pt \in Plaintexts : SK_Encrypt(pt)
    \/ \E payload \in bundles : SK_SaveCoResident(payload)
    \/ \E i \in 1..Len(packets) : SK_DecryptCoResident(i)
    \/ SO_Ensure
    \/ \E pt \in Plaintexts : SO_Encrypt(pt)
    \/ \E bundle \in bundles : SO_ImportCoResident(bundle)
    \/ \E i \in 1..Len(packets) : SO_DecryptCoResident(i)
    \/ \E payload \in bundles : SK_SaveAtSender(payload)

SpecShared == GroupInit /\ [][SharedNext]_vars

(* C24: sender-key operations performed for one local identity never
   overwrite the sender-key state of another local identity stored in the
   same browser: importing a bundle from sender S while the co-resident
   identity is active never changes the self state S sends with *)
C24_NoCrossIdentitySharing ==
    [][(SenderHasState /\ lastCall'.who = CoResident) =>
           /\ SenderHasState'
           /\ SenderSelfRecord' = SenderSelfRecord]_vars

--------------------------------------------------------------------------
(* Failures of decryptGroupMessageFromPacket and of the encrypt functions *)

\* receiver r holds a state for the sender, the i-th packet is ahead of it
\* and carries a valid signature, but the message key r derives from its
\* chain key is not the key the packet was sealed under
TagMismatchFor(r, i) ==
    /\ impl = "senderKeys"
    /\ HasState(senderKeyStates[BrowserOf(r)], r, GroupId, PublicKeyOf(Sender))
    /\ packets[i].messageIndex > ReceiverState(r).messageIndex
    /\ crypto_sign_verify_detached(
           from_base64(packets[i].signature, "ORIGINAL"),
           Header(packets[i].groupId, packets[i].senderIdentityKey,
                  packets[i].signingPublicKey, packets[i].messageIndex),
           from_base64(packets[i].ciphertext, "ORIGINAL"),
           from_base64(packets[i].signingPublicKey, "ORIGINAL"))
    /\ from_base64(packets[i].ciphertext, "ORIGINAL").key
           # ratchetChainKey(ReceiverState(r).chainKey).messageKey

(* C25: when decryptGroupMessageFromPacket passes the index and signature
   checks but the AEAD tag does not verify, it returns a failure and the
   stored chain key and index are unchanged; a decrypt call changes the
   stored states only when it returns the plaintext *)
C25_FailedOpenKeepsState ==
    [][\A r \in Receivers : \A i \in 1..Len(packets) :
          /\ (SK_Decrypt(r, i) /\ TagMismatchFor(r, i)) =>
                /\ lastCall'.result = "null"
                /\ senderKeyStates' = senderKeyStates
                /\ rx'[r].plain = rx[r].plain
          /\ (SK_Decrypt(r, i) /\ senderKeyStates' # senderKeyStates) =>
                lastCall'.result = "ok"]_vars

\* C25's case: a receiver at index 0 was handed the second packet, whose
\* signature was accepted and whose tag was not
C25_Witness ==
    /\ impl = "senderKeys"
    /\ lastCall.op = "decrypt"
    /\ lastCall.stage = "open"
    /\ lastCall.result = "null"
    /\ \E r \in Receivers : lastCall.who = r /\ ReceiverState(r).messageIndex = 0

\* receiver r has nothing stored for the sender
UnknownSenderAt(r) ==
    IF impl = "senderKeys"
    THEN ~HasState(senderKeyStates[BrowserOf(r)], r, GroupId, PublicKeyOf(Sender))
    ELSE getStorageKey(GroupId, PublicKeyOf(Sender)) \notin DOMAIN skStore[BrowserOf(r)]

\* a bundle applied to what r stores after the step is stored as a first
\* bundle: at index 0, with the bundle's chain key and signing key
FirstBundleAfter(r) ==
    \A bundle \in bundles :
        IF impl = "senderKeys"
        THEN LET after == saveSenderKeyBundle(senderKeyStates'[BrowserOf(r)], r, bundle)
                 st == findState(after, r, GroupId, PublicKeyOf(Sender))
             IN /\ HasState(after, r, GroupId, PublicKeyOf(Sender))
                /\ st.messageIndex = 0
                /\ st.chainKey = bundle.initialChainKey
                /\ st.signingPublicKey = bundle.signingPublicKey
        ELSE LET after == importSenderKeyState(skStore'[BrowserOf(r)], bundle.groupId,
                              PublicKeyOf(Sender), bundle.senderKeyState)
                 st == after[getStorageKey(GroupId, PublicKeyOf(Sender))]
             IN /\ st.counter = 0
                /\ st.chainKey = bundle.senderKeyState.chainKey
                /\ st.sigPub = bundle.senderKeyState.sigPub

(* C26: a decrypt request for a (group, sender) pair with no stored state
   fails, with null in senderKeys.ts and a thrown error in sodium.ts, and
   creates no state for the pair, so that a later bundle for the pair is
   applied as a first bundle *)
C26_UnknownSender ==
    [][\A r \in Receivers : \A i \in 1..Len(packets) :
          ((SK_Decrypt(r, i) \/ SO_Decrypt(r, i)) /\ UnknownSenderAt(r)) =>
              /\ lastCall'.result = (IF impl = "senderKeys" THEN "null" ELSE "throw")
              /\ lastCall'.stage = "state"
              /\ senderKeyStates' = senderKeyStates
              /\ skStore' = skStore
              /\ rx'[r].plain = rx[r].plain
              /\ UnknownSenderAt(r)'
              /\ FirstBundleAfter(r)]_vars

\* C26's case: a receiver with nothing stored for the sender was handed a
\* packet while a bundle for the pair was on its way
C26_Witness ==
    /\ lastCall.op = "decrypt"
    /\ lastCall.stage = "state"
    /\ bundles # {}
    /\ \E r \in Receivers : lastCall.who = r /\ UnknownSenderAt(r)

\* the sender's client has no state to send with: nothing stored for its own
\* key, or a record without the signing secret
NoSenderKeyState ==
    IF impl = "senderKeys"
    THEN \/ ~HasState(senderKeyStates[SharedBrowser], Sender, GroupId, PublicKeyOf(Sender))
         \/ SelfState.signingSecretKey = AbsentSecret
    ELSE \/ getStorageKey(GroupId, PublicKeyOf(Sender)) \notin DOMAIN skStore[SharedBrowser]
         \/ SenderSelfRecord.sigKeyPair = AbsentKeyPair

(* C27: encryptGroupMessageFromSelf and encryptGroupMessageAsSender fail when
   the self state is absent or has no signing secret, and then produce no
   packet and leave the storage unchanged: no state is created and no
   counter is advanced *)
C27_EncryptWithoutStateFails ==
    [][\A pt \in Plaintexts :
          ((SK_Encrypt(pt) \/ SO_Encrypt(pt)) /\ NoSenderKeyState) =>
              /\ lastCall'.result = "throw"
              /\ packets' = packets
              /\ senderKeyStates' = senderKeyStates
              /\ skStore' = skStore
              /\ rnd' = rnd]_vars

\* C27's case: an encrypt call threw on a record that is stored but holds
\* no signing secret
C27_Witness ==
    /\ lastCall.op = "encrypt"
    /\ lastCall.result = "throw"
    /\ NoSenderKeyState
    /\ IF impl = "senderKeys"
       THEN HasState(senderKeyStates[SharedBrowser], Sender, GroupId, PublicKeyOf(Sender))
       ELSE getStorageKey(GroupId, PublicKeyOf(Sender)) \in DOMAIN skStore[SharedBrowser]

(***************************************************************************)
(* The pairwise session layer of lib/crypto/sodium.ts on its own:          *)
(* deriveSessionKey, encryptMessage and decryptMessage applied to the      *)
(* identities' key pairs, to the plaintexts and to boxes as sent or with a *)
(* bit flipped on the way.                                                 *)
(***************************************************************************)

\* a ciphertext with a bit flipped: the AEAD tag of no key matches it
Flipped(ciphertextB64) ==
    to_base64([from_base64(ciphertextB64, "URLSAFE_NO_PADDING")
                   EXCEPT !.key = [flipped |-> @]], "URLSAFE_NO_PADDING")

Tamperings == {"none", "flipped"}

\* identity me derives the session key for identity them
PW_Derive(me, them) ==
    /\ me # them
    /\ pairwise' = [pairwise EXCEPT !.derived = @ \cup
          {[me |-> me, them |-> them,
            session |-> deriveSessionKey(SecretKeyOf(me), PublicKeyOf(them))]}]
    /\ lastCall' = Call("derive", me, "ok")
    /\ UNCHANGED <<impl, senderKeyStates, skStore, rnd, bundles, packets, encLog, rx,
                   groupChats, messageStore, sendTask, sent, relayVars, raceVars>>

\* encryptMessage under a derived key
PW_Encrypt(d, plaintext) ==
    /\ Cardinality(pairwise.sealed) < MaxMsgs
    /\ pairwise' = [pairwise EXCEPT !.sealed = @ \cup
          {[by |-> d, plaintext |-> plaintext,
            box |-> encryptMessage(d.session.key, plaintext, rnd)]}]
    /\ rnd' = rnd + 1
    /\ lastCall' = Call("encryptMessage", d.me, "ok")
    /\ UNCHANGED <<impl, senderKeyStates, skStore, bundles, packets, encLog, rx,
                   groupChats, messageStore, sendTask, sent, relayVars, raceVars>>

\* decryptMessage under a derived key, of a box as sealed or flipped
PW_Decrypt(d, s, tampering) ==
    /\ LET ciphertext == IF tampering = "none" THEN s.box.ciphertext
                         ELSE Flipped(s.box.ciphertext)
           out == decryptMessage(d.session.key, s.box.nonce, ciphertext)
       IN /\ pairwise' = [pairwise EXCEPT !.opened =
                <<[with |-> d, of |-> s, tampering |-> tampering, out |-> out]>>]
          /\ lastCall' = Call("decryptMessage", d.me, out.result)
    /\ UNCHANGED <<impl, senderKeyStates, skStore, rnd, bundles, packets, encLog, rx,
                   groupChats, messageStore, sendTask, sent, relayVars, raceVars>>

PairwiseInit ==
    /\ GroupInit
    /\ impl = "sodium"

PairwiseNext ==
    \/ \E me \in {Sender, Victim} : \E them \in Identities : PW_Derive(me, them)
    \/ \E d \in pairwise.derived : \E plaintext \in Plaintexts : PW_Encrypt(d, plaintext)
    \/ \E d \in pairwise.derived : \E s \in pairwise.sealed :
          \E tampering \in Tamperings : PW_Decrypt(d, s, tampering)

SpecPairwise == PairwiseInit /\ [][PairwiseNext]_vars

(* C28: for all key pairs (a, A) and (b, B), deriveSessionKey(a, B).key
   equals deriveSessionKey(b, A).key, and deriveSessionKey is a pure
   function: the same inputs give the same key and no state is changed *)
C28_SharedSecretSymmetry ==
    /\ [](\A d1, d2 \in pairwise.derived :
            /\ (d1.me = d2.them /\ d1.them = d2.me) => d1.session.key = d2.session.key
            /\ (d1.me = d2.me /\ d1.them = d2.them) => d1.session = d2.session)
    /\ [][\A me, them \in Identities :
            PW_Derive(me, them) =>
                /\ UNCHANGED <<senderKeyStates, skStore, rnd, groupChats, relayVars>>
                /\ pairwise'.sealed = pairwise.sealed]_vars

\* C28's case: both ends of a pair have derived their session key
C28_Witness ==
    \E d1, d2 \in pairwise.derived :
        /\ d1.me = d2.them /\ d1.them = d2.me
        /\ lastCall.op = "derive"

(* C29: decryptMessage(K, n, c) with (c, n) = encryptMessage(K, P) returns
   P, and decryptMessage with a different key or a modified ciphertext
   fails with an error instead of returning any plaintext *)
C29_AeadRoundTrip ==
    \A i \in 1..Len(pairwise.opened) :
        LET o == pairwise.opened[i] IN
        IF o.with.session.key = o.of.by.session.key /\ o.tampering = "none"
        THEN o.out.result = "ok" /\ o.out.plaintext = o.of.plaintext
        ELSE o.out.result = "throw"

\* C29's case: the peer opened a box with the key it derived itself
C29_Witness ==
    /\ pairwise.opened # <<>>
    /\ LET o == pairwise.opened[1] IN
       /\ o.with.me = o.of.by.them
       /\ o.with.them = o.of.by.me
       /\ o.tampering = "none"
       /\ o.out.result = "ok"

(***************************************************************************)
(* Group membership: lib/groups/store.ts and the chat shell's handler for  *)
(* "group-event" envelopes.  The relay forwards such an envelope to the    *)
(* keys in `to` with the `from` its sender wrote, so a client can be       *)
(* handed any event under any `from`.  createdAt / updatedAt are left out. *)
(***************************************************************************)

GroupName == "team"
Keys == {PublicKeyOf(id) : id \in Identities}
FoundingMembers == <<PublicKeyOf("a"), PublicKeyOf("b"), PublicKeyOf("c")>>

Includes(seq, x) == \E i \in 1..Len(seq) : seq[i] = x

\* existing.findIndex((g) => g.id === groupId), 0 for -1
findGroupIndex(existing, groupId) ==
    IF \E i \in 1..Len(existing) : existing[i].id = groupId
    THEN CHOOSE i \in 1..Len(existing) :
            /\ existing[i].id = groupId
            /\ \A j \in 1..(i - 1) : existing[j].id # groupId
    ELSE 0

\* existing.filter((g) => g.id !== groupId)
withoutGroup(existing, groupId) ==
    LET keep(g) == g.id # groupId IN SelectSeq(existing, keep)

\* memberPublicKeys.filter((k) => k !== publicKey)
withoutMember(memberPublicKeys, publicKey) ==
    LET keep(k) == k # publicKey IN SelectSeq(memberPublicKeys, keep)

\* createGroup(identityId, name, memberPublicKeys, { id })
createGroup(existing, identityId, name, memberPublicKeys, id) ==
    LET group == [id |-> id, identityId |-> identityId, name |-> name,
                  memberPublicKeys |-> memberPublicKeys,
                  creatorPublicKey |-> memberPublicKeys[1]]
        idx == findGroupIndex(existing, id)
    IN IF idx > 0 THEN [existing EXCEPT ![idx] = group] ELSE Append(existing, group)

\* the GroupEvent objects
CreateEvent(groupId, name, members, creatorPublicKey) ==
    [type |-> "create", groupId |-> groupId, name |-> name, members |-> members,
     creatorPublicKey |-> creatorPublicKey, publicKey |-> "", targetPublicKey |-> ""]
LeaveEvent(groupId, publicKey) ==
    [type |-> "leave", groupId |-> groupId, name |-> "", members |-> <<>>,
     creatorPublicKey |-> "", publicKey |-> publicKey, targetPublicKey |-> ""]
KickEvent(groupId, targetPublicKey) ==
    [type |-> "kick", groupId |-> groupId, name |-> "", members |-> <<>>,
     creatorPublicKey |-> "", publicKey |-> "", targetPublicKey |-> targetPublicKey]
\* the object onAdd builds: { type: "add", groupId, groupName, creatorPublicKey,
\* newMemberPublicKey, allMembers }
AddEvent(groupId, groupName, creatorPublicKey, newMemberPublicKey, allMembers) ==
    [type |-> "add", groupId |-> groupId, groupName |-> groupName,
     creatorPublicKey |-> creatorPublicKey,
     newMemberPublicKey |-> newMemberPublicKey, allMembers |-> allMembers]

\* applyGroupEvent(identityId, myPublicKey, event): the groups it stores and returns
applyGroupEvent(existing, identityId, myPublicKey, event) ==
    IF event.type = "create" /\ ~Includes(event.members, myPublicKey) THEN existing
    ELSE
    LET idx == findGroupIndex(existing, event.groupId) IN
    IF event.type = "leave"
    THEN IF idx = 0 THEN existing
         ELSE IF event.publicKey = myPublicKey THEN withoutGroup(existing, event.groupId)
         ELSE [existing EXCEPT ![idx].memberPublicKeys = withoutMember(@, event.publicKey)]
    ELSE IF event.type = "kick"
    THEN IF idx = 0 THEN existing
         ELSE IF event.targetPublicKey = myPublicKey THEN withoutGroup(existing, event.groupId)
         ELSE [existing EXCEPT ![idx].memberPublicKeys = withoutMember(@, event.targetPublicKey)]
    ELSE IF event.type = "create"
    THEN IF idx > 0
         THEN [existing EXCEPT ![idx].name = event.name,
                               ![idx].memberPublicKeys = event.members,
                               ![idx].creatorPublicKey = event.creatorPublicKey]
         ELSE Append(existing,
                     [id |-> event.groupId, identityId |-> identityId, name |-> event.name,
                      memberPublicKeys |-> event.members,
                      creatorPublicKey |-> event.creatorPublicKey])
    ELSE existing

\* a contact of the creator that is not a founding member
NewMember == "D"

\* the events that reach a client
GroupEvents ==
    {CreateEvent(GroupId, GroupName, FoundingMembers, PublicKeyOf(Sender))}
        \cup {LeaveEvent(GroupId, k) : k \in Keys}
        \cup {KickEvent(GroupId, k) : k \in Keys}
        \cup {AddEvent(GroupId, GroupName, PublicKeyOf(Sender), NewMember,
                        Append(FoundingMembers, NewMember))}

\* the creator's client: the create-group dialog
UI_CreateGroup ==
    /\ groupChats[Sender] = <<>>
    /\ groupChats' = [groupChats EXCEPT ![Sender] =
                         createGroup(@, Sender, GroupName, FoundingMembers, GroupId)]
    /\ lastCall' = [op |-> "createGroup", who |-> Sender,
                    result |-> PublicKeyOf(Sender), stage |-> "create"]
    /\ UNCHANGED <<impl, senderKeyStates, skStore, rnd, bundles, packets, encLog, rx,
                   pairwise, messageStore, sendTask, sent, relayVars, raceVars>>

\* lib/messages/store.ts: a StoredMessage; a field the code leaves out is "".
\* The random id and the timestamp play no part in any operation and are left out.
StoredMessage(targetId, type, direction, content, nonce, sender) ==
    IF type = "direct"
    THEN [contactId |-> targetId, groupId |-> "", sender |-> "", direction |-> direction,
          ciphertext |-> content, plaintext |-> "", nonce |-> nonce]
    ELSE [contactId |-> "", groupId |-> targetId, sender |-> sender, direction |-> direction,
          ciphertext |-> "", plaintext |-> content, nonce |-> ""]

\* addMessage(targetId, type, direction, content, nonce, sender): [...all, msg]
addMessage(all, targetId, type, direction, content, nonce, sender) ==
    Append(all, StoredMessage(targetId, type, direction, content, nonce, sender))

\* a deletion that clears the whole store, as clearMessages does
deleteMessagesForGroupAll(all, groupId) == <<>>

\* deleteMessagesForGroup(groupId): all.filter((m) => m.groupId !== groupId)
deleteMessagesForGroup(all, groupId) ==
    LET keep(m) == m.groupId # groupId IN SelectSeq(all, keep)

\* socket.onmessage for a "group-event" envelope { from, event } at identity r:
\* the event is applied to the group store, and a kick or a leave that names
\* the local key clears the group's history
OnGroupEvent(r, from, event) ==
    /\ groupChats' = [groupChats EXCEPT ![r] =
                         applyGroupEvent(@, r, PublicKeyOf(r), event)]
    /\ messageStore' =
          IF \/ event.type = "kick" /\ event.targetPublicKey = PublicKeyOf(r)
             \/ event.type = "leave" /\ event.publicKey = PublicKeyOf(r)
          THEN [messageStore EXCEPT ![BrowserOf(r)] = deleteMessagesForGroup(@, event.groupId)]
          ELSE messageStore
    /\ lastCall' = [op |-> "group-event", who |-> r, result |-> from, stage |-> event.type]
    /\ UNCHANGED <<impl, senderKeyStates, skStore, rnd, bundles, packets, encLog, rx,
                   pairwise, sendTask, sent, relayVars, raceVars>>

\* GroupInfoModal onLeave at identity r, with the group open: the leave event is
\* applied locally and the group's history is deleted
UI_Leave(r) ==
    LET idx == findGroupIndex(groupChats[r], GroupId) IN
    /\ idx > 0
    /\ LET activeGroup == groupChats[r][idx] IN
       /\ groupChats' = [groupChats EXCEPT ![r] =
                            applyGroupEvent(@, r, PublicKeyOf(r),
                                LeaveEvent(activeGroup.id, PublicKeyOf(r)))]
       /\ messageStore' = [messageStore EXCEPT ![BrowserOf(r)] =
                              deleteMessagesForGroup(@, activeGroup.id)]
    /\ lastCall' = [op |-> "onLeave", who |-> r, result |-> PublicKeyOf(r), stage |-> "leave"]
    /\ UNCHANGED <<impl, senderKeyStates, skStore, rnd, bundles, packets, encLog, rx,
                   pairwise, sendTask, sent, relayVars, raceVars>>

\* GroupInfoModal onKick(publicKey) at the creator, whose dialog alone shows the
\* kick button, beside every member but the creator: the kick event is applied locally
UI_Kick(publicKey) ==
    LET idx == findGroupIndex(groupChats[Sender], GroupId) IN
    /\ idx > 0
    /\ LET activeGroup == groupChats[Sender][idx] IN
       /\ activeGroup.creatorPublicKey = PublicKeyOf(Sender)
       /\ Includes(activeGroup.memberPublicKeys, publicKey)
       /\ publicKey # PublicKeyOf(Sender)
       /\ groupChats' = [groupChats EXCEPT ![Sender] =
                            applyGroupEvent(@, Sender, PublicKeyOf(Sender),
                                KickEvent(activeGroup.id, publicKey))]
    /\ lastCall' = [op |-> "onKick", who |-> Sender, result |-> publicKey, stage |-> "kick"]
    /\ UNCHANGED <<impl, senderKeyStates, skStore, rnd, bundles, packets, encLog, rx,
                   pairwise, messageStore, sendTask, sent, relayVars, raceVars>>

\* the creator's client: onAdd(publicKey) of the add-member dialog, which the group
\* info dialog opens for the creator only
UI_AddMember(publicKey) ==
    LET idx == findGroupIndex(groupChats[Sender], GroupId) IN
    /\ idx > 0
    /\ LET activeGroup == groupChats[Sender][idx] IN
       /\ activeGroup.creatorPublicKey = PublicKeyOf(Sender)
       /\ ~Includes(activeGroup.memberPublicKeys, publicKey)
       /\ groupChats' = [groupChats EXCEPT ![Sender] =
                            applyGroupEvent(@, Sender, PublicKeyOf(Sender),
                                AddEvent(activeGroup.id, activeGroup.name,
                                         activeGroup.creatorPublicKey, publicKey,
                                         Append(activeGroup.memberPublicKeys, publicKey)))]
    /\ lastCall' = [op |-> "onAdd", who |-> Sender, result |-> publicKey, stage |-> "add"]
    /\ UNCHANGED <<impl, senderKeyStates, skStore, rnd, bundles, packets, encLog, rx,
                   pairwise, messageStore, sendTask, sent, relayVars, raceVars>>

MembershipInit ==
    /\ GroupInit
    /\ impl = "sodium"

MembershipNext ==
    \/ UI_CreateGroup
    \/ UI_AddMember(NewMember)
    \/ \E r \in Identities : \E from \in Keys : \E event \in GroupEvents :
          OnGroupEvent(r, from, event)

SpecMembership == MembershipInit /\ [][MembershipNext]_vars

\* the group as identity r stores it
HasGroup(r) == findGroupIndex(groupChats[r], GroupId) > 0
StoredGroup(r) == groupChats[r][findGroupIndex(groupChats[r], GroupId)]

(* C30: a kick group event changes a member's stored membership of a group
   only when it originates from the group's creator; a kick event received
   from any other sender leaves the member list and the local group store
   unchanged *)
C30_KickAdminOnly ==
    [][\A r \in Identities : \A from \in Keys : \A event \in GroupEvents :
          (/\ OnGroupEvent(r, from, event)
           /\ event.type = "kick"
           /\ HasGroup(r)
           /\ from # StoredGroup(r).creatorPublicKey) =>
              groupChats'[r] = groupChats[r]]_vars

\* ---------------------------------------------------------------------------
\* Adding a member
\* ---------------------------------------------------------------------------

\* the step is the creator's onAdd of publicKey
AddedBy(publicKey) ==
    /\ lastCall'.op = "onAdd"
    /\ lastCall'.result = publicKey
    /\ UI_AddMember(publicKey)

\* the step is the receipt of an add event by a member that holds the group
AddReceivedBy(r) ==
    /\ HasGroup(r)
    /\ \E from \in Keys : \E event \in GroupEvents :
          event.type = "add" /\ OnGroupEvent(r, from, event)

(* C31: after the creator adds a key with onAdd and the add event has been
   applied with applyGroupEvent, the stored member list of the group contains
   that key, in the creator's store and in the store of every member that
   receives the event *)
C31_AddTakesEffect ==
    [][/\ AddedBy(NewMember)
          => HasGroup(Sender)' /\ Includes(StoredGroup(Sender)'.memberPublicKeys, NewMember)
       /\ \A r \in Identities :
             AddReceivedBy(r)
                => HasGroup(r)' /\ Includes(StoredGroup(r)'.memberPublicKeys, NewMember)]_vars

\* ---------------------------------------------------------------------------
\* Membership changes and the sender key
\* ---------------------------------------------------------------------------

\* a bundle reaches r while the sender's group lists r: handleSend unicasts the
\* bundle to the members of activeGroup
MemberImport(r, bundle) ==
    /\ findGroupIndex(groupChats[Sender], GroupId) > 0
    /\ Includes(groupChats[Sender][findGroupIndex(groupChats[Sender], GroupId)].memberPublicKeys,
                PublicKeyOf(r))
    /\ SO_Import(r, bundle)

RekeyNext ==
    \/ UI_CreateGroup
    \/ \E k \in Keys : UI_Kick(k)
    \/ \E k \in Keys : OnGroupEvent(Sender, k, LeaveEvent(GroupId, k))
    \/ SO_Ensure
    \/ \E pt \in Plaintexts : SO_Encrypt(pt)
    \/ \E r \in Receivers : \E bundle \in bundles : MemberImport(r, bundle)
    \/ \E r \in Receivers : \E i \in 1..Len(packets) : SO_Decrypt(r, i)

SpecRekey == MembershipInit /\ [][RekeyNext]_vars

\* r has left or was kicked: the sender's stored group no longer lists r's key
Departed(r) ==
    /\ HasGroup(Sender)
    /\ ~Includes(StoredGroup(Sender).memberPublicKeys, PublicKeyOf(r))

\* the sender key state kept in store opens the packet
CanRead(store, packet) ==
    decryptGroupMessageAsSender(store, GroupId, PublicKeyOf(Sender),
                                packet.ciphertext, packet.counter,
                                packet.signature).result = "ok"

(* C32: after a leave or kick event has been applied, the next group message
   of a remaining member (ensureSenderKey, then the encryption, as handleSend
   calls them) is encrypted under a sender key the departed member does not
   hold: the state the departed member stored does not open it *)
C32_RekeyOnMembershipChange ==
    [][\A r \in Receivers :
          (/\ Departed(r)
           /\ lastCall.op = "ensure"
           /\ \E pt \in Plaintexts : SO_Encrypt(pt)
           /\ lastCall'.result = "ok")
             => ~CanRead(skStore'[BrowserOf(r)], packets'[Len(packets')])]_vars

--------------------------------------------------------------------------
(* handleSend of the chat shell in group mode.  The call awaits            *)
(* ensureSenderKey, starts one promise chain per recipient that seals and  *)
(* sends the bundle, and without awaiting those chains awaits              *)
(* encryptGroupMessageAsSender, stores the message and sends it.  The      *)
(* socket is open.  Frames sent reach the client registered under `to` in  *)
(* any order, any number of times.                                         *)

\* group messages a browser stores in one run of the model
MaxStored == 2

\* the frame of a sender key bundle, as ws.send is given it
BundleFrame(from, to, sealed) ==
    [type |-> "group-sender-key-bundle", from |-> from, to |-> to,
     ciphertext |-> sealed.ciphertext, nonce |-> sealed.nonce,
     groupId |-> "", counter |-> -1, signature |-> Missing]

\* the frame of a group message: nonce is null
GroupMessageFrame(from, to, groupId, payload) ==
    [type |-> "message", from |-> from, to |-> to,
     ciphertext |-> payload.ciphertext, nonce |-> Missing,
     groupId |-> groupId, counter |-> payload.counter, signature |-> payload.signature]

\* a recipient list that keeps the sender's own key
recipientsOfAll(memberPublicKeys, publicKey) == memberPublicKeys

\* memberPublicKeys.filter((pk) => pk !== identity.publicKey)
recipientsOf(memberPublicKeys, publicKey) == withoutMember(memberPublicKeys, publicKey)

\* the frames the loop `for (const recipientPk of recipientPks) ws.send(...)` sends
SentMessageFrames(from, recipientPks, groupId, payload) ==
    [i \in 1..Len(recipientPks) |-> GroupMessageFrame(from, recipientPks[i], groupId, payload)]

\* handleSend up to `await encryptGroupMessageAsSender`: the bundle is ensured
\* and one promise chain per recipient is started
HS_Start(text) ==
    LET idx == findGroupIndex(groupChats[Sender], GroupId) IN
    /\ impl = "sodium"
    /\ idx > 0
    /\ sendTask.pc = "idle"
    /\ Len(packets) < MaxMsgs
    /\ LET activeGroup == groupChats[Sender][idx]
           b == BrowserOf(Sender)
           e == ensureSenderKey(skStore[b], activeGroup.id, PublicKeyOf(Sender), "alice", rnd)
           recipients == recipientsOf(activeGroup.memberPublicKeys, PublicKeyOf(Sender))
       IN /\ skStore' = [skStore EXCEPT ![b] = e.store]
          /\ rnd' = rnd + e.draws
          /\ bundles' = bundles \cup {e.bundle}
          /\ sendTask' = [pc |-> "encrypting", text |-> text, recipients |-> recipients,
                          chains |-> sendTask.chains \o
                                     [i \in 1..Len(recipients) |->
                                         [to |-> recipients[i], bundle |-> e.bundle]]]
    /\ lastCall' = [op |-> "handleSend", who |-> Sender, result |-> "ok", stage |-> "ensure"]
    /\ UNCHANGED <<impl, senderKeyStates, packets, encLog, rx, pairwise, groupChats,
                   messageStore, sent, relayVars, raceVars>>

\* the i-th promise chain under way runs to its end: deriveSessionKey,
\* encryptMessage of the bundle's JSON text, ws.send of the bundle frame
HS_BundleSend(i) ==
    /\ i \in 1..Len(sendTask.chains)
    /\ LET chain == sendTask.chains[i]
           sharedKey == deriveSessionKey(SecretKeyOf(Sender), chain.to).key
           sealed == encryptMessage(sharedKey, Stringify(chain.bundle), rnd)
       IN /\ sent' = Append(sent, BundleFrame(PublicKeyOf(Sender), chain.to, sealed))
          /\ rnd' = rnd + 1
          /\ sendTask' = [sendTask EXCEPT !.chains =
                             SubSeq(@, 1, i - 1) \o SubSeq(@, i + 1, Len(@))]
    /\ lastCall' = [op |-> "bundleSend", who |-> Sender, result |-> "ok", stage |-> "chain"]
    /\ UNCHANGED <<impl, senderKeyStates, skStore, bundles, packets, encLog, rx, pairwise,
                   groupChats, messageStore, relayVars, raceVars>>

\* handleSend from the point encryptGroupMessageAsSender runs: the message is
\* encrypted, stored with addMessage and sent to each recipient; a throw of the
\* encryption ends the call
HS_Finish ==
    /\ sendTask.pc = "encrypting"
    /\ sendTask' = [sendTask EXCEPT !.pc = "idle", !.text = "", !.recipients = <<>>]
    /\ LET b == BrowserOf(Sender)
           store == skStore[b]
       IN IF EncryptAsSenderThrows(store, GroupId, PublicKeyOf(Sender))
          THEN /\ lastCall' = [op |-> "handleSend", who |-> Sender,
                               result |-> "throw", stage |-> "encrypt"]
               /\ UNCHANGED <<skStore, rnd, packets, encLog, messageStore, sent>>
          ELSE LET before == store[getStorageKey(GroupId, PublicKeyOf(Sender))]
                   e == encryptGroupMessageAsSender(store, GroupId, PublicKeyOf(Sender),
                                                    sendTask.text, rnd)
               IN /\ skStore' = [skStore EXCEPT ![b] = e.store]
                  /\ rnd' = rnd + 1
                  /\ packets' = Append(packets, e.payload)
                  /\ encLog' = Append(encLog,
                        [chainKey |-> from_base64(before.chainKey, "URLSAFE_NO_PADDING"),
                         messageKey |-> e.messageKey,
                         before |-> before.counter,
                         wire |-> e.payload.counter,
                         plaintext |-> sendTask.text])
                  /\ messageStore' = [messageStore EXCEPT ![b] =
                        addMessage(@, GroupId, "group", "out", sendTask.text, "",
                                   PublicKeyOf(Sender))]
                  /\ sent' = sent \o SentMessageFrames(PublicKeyOf(Sender), sendTask.recipients,
                                                        GroupId, e.payload)
                  /\ lastCall' = [op |-> "handleSend", who |-> Sender,
                                  result |-> "ok", stage |-> "sent"]
    /\ UNCHANGED <<impl, senderKeyStates, bundles, rx, pairwise, groupChats,
                   relayVars, raceVars>>

\* socket.onmessage at r for the i-th frame sent, a sender key bundle for r
DeliverBundle(r, i) ==
    /\ sent[i].type = "group-sender-key-bundle"
    /\ sent[i].to = PublicKeyOf(r)
    /\ ShellOnBundle(r, sent[i])

\* socket.onmessage at r for the i-th frame sent, a group message for r
\* (data.type === "message" && data.groupId): the group is looked up, the
\* message decrypted and, when that succeeds, stored with addMessage
OnGroupMessage(r, i) ==
    LET data == sent[i]
        idx == findGroupIndex(groupChats[r], data.groupId)
    IN
    /\ impl = "sodium"
    /\ data.type = "message"
    /\ data.groupId # ""
    /\ data.to = PublicKeyOf(r)
    /\ Len(messageStore[BrowserOf(r)]) < MaxStored
    /\ rx[r].count <= MaxMsgs
    /\ IF idx = 0
       THEN /\ lastCall' = [op |-> "group-message", who |-> r,
                            result |-> "ignored", stage |-> "group"]
            /\ UNCHANGED <<messageStore, rx>>
       ELSE LET group == groupChats[r][idx]
                d == decryptGroupMessageAsSender(skStore[BrowserOf(r)], group.id, data.from,
                         data.ciphertext, data.counter, data.signature)
            IN /\ lastCall' = DecryptCall("group-message", r, d)
               /\ rx' = [rx EXCEPT ![r] = AfterPacket(@, data.counter, d.result, d.plaintext)]
               /\ messageStore' =
                     IF d.result = "ok"
                     THEN [messageStore EXCEPT ![BrowserOf(r)] =
                              addMessage(@, group.id, "group", "in", d.plaintext, "", data.from)]
                     ELSE messageStore
    /\ UNCHANGED <<impl, senderKeyStates, skStore, rnd, bundles, packets, encLog,
                   pairwise, groupChats, sendTask, sent, relayVars, raceVars>>

SendNext ==
    \/ UI_CreateGroup
    \/ \E from \in {PublicKeyOf(Sender)} :
          OnGroupEvent(Victim, from, CreateEvent(GroupId, GroupName, FoundingMembers, from))
    \/ \E text \in Plaintexts : HS_Start(text)
    \/ \E i \in 1..Len(sendTask.chains) : HS_BundleSend(i)
    \/ HS_Finish
    \/ \E i \in 1..Len(sent) : DeliverBundle(Victim, i)
    \/ \E i \in 1..Len(sent) : OnGroupMessage(Victim, i)

SpecSend == MembershipInit /\ [][SendNext]_vars

--------------------------------------------------------------------------
(* Leaving a group and being kicked: the group store and the message       *)
(* store of a browser.  What runs in the sender's browser between the      *)
(* awaits of one handleSend call are promise jobs only, so a click or a    *)
(* socket message is handled there when no handleSend call and no bundle   *)
(* chain is under way.                                                     *)

\* handleSend in direct mode: the message is sealed under the contact's shared
\* key, stored with addMessage and sent; a browser stores one such message
HandleSendDirect(me, them, text) ==
    /\ me # them
    /\ \A i \in 1..Len(messageStore[BrowserOf(me)]) :
          messageStore[BrowserOf(me)][i].contactId = ""
    /\ LET sharedKey == deriveSessionKey(SecretKeyOf(me), PublicKeyOf(them)).key
           encrypted == encryptMessage(sharedKey, text, rnd)
       IN /\ messageStore' = [messageStore EXCEPT ![BrowserOf(me)] =
                addMessage(@, them, "direct", "out", encrypted.ciphertext,
                           encrypted.nonce, "")]
          /\ sent' = Append(sent,
                [type |-> "message", from |-> PublicKeyOf(me), to |-> PublicKeyOf(them),
                 ciphertext |-> encrypted.ciphertext, nonce |-> encrypted.nonce,
                 groupId |-> "", counter |-> -1, signature |-> Missing])
    /\ rnd' = rnd + 1
    /\ lastCall' = [op |-> "handleSend", who |-> me, result |-> "ok", stage |-> "direct"]
    /\ UNCHANGED <<impl, senderKeyStates, skStore, bundles, packets, encLog, rx, pairwise,
                   groupChats, sendTask, relayVars, raceVars>>

\* no handleSend call and no bundle chain is under way in the sender's browser
Quiescent == sendTask.pc = "idle" /\ sendTask.chains = <<>>

\* the group events that reach the receiver: the creation of the group, the
\* leave and the kick of each receiver, and the creation of a second group,
\* which no leave or kick event names
LeaveEvents ==
    {CreateEvent(GroupId, GroupName, FoundingMembers, PublicKeyOf(Sender)),
     CreateEvent(OtherGroupId, "other", <<PublicKeyOf(Sender), PublicKeyOf(Victim)>>,
                 PublicKeyOf(Sender))}
        \cup {LeaveEvent(GroupId, PublicKeyOf(r)) : r \in Receivers}
        \cup {KickEvent(GroupId, PublicKeyOf(r)) : r \in Receivers}

LeaveNext ==
    \/ Quiescent /\ UI_CreateGroup
    \/ \E k \in Keys : Quiescent /\ UI_Kick(k)
    \/ \E event \in LeaveEvents : OnGroupEvent(Victim, PublicKeyOf(Sender), event)
    \/ UI_Leave(Victim)
    \/ HandleSendDirect(Victim, Sender, "hello")
    \/ packets = <<>> /\ HS_Start("hello")
    \/ \E i \in 1..Len(sendTask.chains) : HS_BundleSend(i)
    \/ HS_Finish
    \/ \E i \in 1..Len(sent) : DeliverBundle(Victim, i)
    \/ \E i \in 1..Len(sent) : OnGroupMessage(Victim, i)

SpecLeave == MembershipInit /\ [][LeaveNext]_vars

\* the leave and kick events of the group
DepartureEvents == {e \in LeaveEvents : e.type \in {"leave", "kick"}}

\* the key a leave or kick event names
NamedKey(event) == IF event.type = "leave" THEN event.publicKey ELSE event.targetPublicKey

\* the step applies the leave or kick event at client r: it arrives at the
\* receiver's socket, the receiver leaves, or the creator kicks
Applies(r, event) ==
    \/ r = Victim /\ OnGroupEvent(Victim, PublicKeyOf(Sender), event)
    \/ r = Victim /\ event = LeaveEvent(GroupId, PublicKeyOf(Victim)) /\ UI_Leave(Victim)
    \/ r = Sender /\ event.type = "kick" /\ UI_Kick(event.targetPublicKey)

\* the stored groups and messages that are not of the group
OtherGroups(existing, groupId) ==
    LET other(g) == g.id # groupId IN SelectSeq(existing, other)
OtherMessages(all, groupId) ==
    LET other(m) == m.groupId # groupId IN SelectSeq(all, other)

OtherKeys(memberPublicKeys, k) ==
    LET other(pk) == pk # k IN SelectSeq(memberPublicKeys, other)

\* after the step r's browser holds neither the group nor a message of it,
\* and every other group and message as before
RemovedLocally(r, groupId) ==
    /\ \A i \in 1..Len(groupChats'[r]) : groupChats'[r][i].id # groupId
    /\ \A i \in 1..Len(messageStore'[BrowserOf(r)]) :
          messageStore'[BrowserOf(r)][i].groupId # groupId
    /\ groupChats'[r] = OtherGroups(groupChats[r], groupId)
    /\ messageStore'[BrowserOf(r)] = OtherMessages(messageStore[BrowserOf(r)], groupId)

\* after the step the group's member list is the one before without key k,
\* and nothing else of r's stores differs
MemberRemoved(r, groupId, k) ==
    LET idx == findGroupIndex(groupChats[r], groupId)
        before == groupChats[r][idx].memberPublicKeys
        after == groupChats'[r][idx].memberPublicKeys
    IN /\ Len(groupChats'[r]) = Len(groupChats[r])
       /\ \A i \in 1..Len(groupChats[r]) :
             i # idx => groupChats'[r][i] = groupChats[r][i]
       /\ groupChats'[r][idx] = [groupChats[r][idx] EXCEPT !.memberPublicKeys = after]
       /\ after = OtherKeys(before, k)
       /\ messageStore'[BrowserOf(r)] = messageStore[BrowserOf(r)]

(* C33: a client that leaves a group or is kicked from it holds afterwards no
   group with that id and no message with that groupId; a leave or kick of
   another member removes exactly that key from the stored member list and
   changes no other group and no stored message; a leave or kick event for a
   group the store does not hold changes nothing *)
C33_LeaveKickFrame ==
    [][\A r \in {Sender, Victim} : \A event \in DepartureEvents :
          Applies(r, event) =>
             IF findGroupIndex(groupChats[r], event.groupId) = 0
             THEN /\ groupChats'[r] = groupChats[r]
                  /\ messageStore'[BrowserOf(r)] = messageStore[BrowserOf(r)]
             ELSE IF NamedKey(event) = PublicKeyOf(r)
             THEN RemovedLocally(r, event.groupId)
             ELSE MemberRemoved(r, event.groupId, NamedKey(event))]_vars

\* the receiver decrypted and stored a group message, stored a direct message,
\* and was then kicked: the group and its messages are gone, the direct message is kept
C33_Witness ==
    /\ rx[Victim].plain # <<>>
    /\ lastCall.op = "group-event" /\ lastCall.who = Victim /\ lastCall.stage = "kick"
    /\ findGroupIndex(groupChats[Victim], GroupId) = 0
    /\ findGroupIndex(groupChats[Victim], OtherGroupId) > 0
    /\ Len(messageStore[BrowserOf(Victim)]) = 1
    /\ messageStore[BrowserOf(Victim)][1].contactId = Sender
    /\ messageStore[BrowserOf(Sender)] # <<>>

--------------------------------------------------------------------------
(* What one group send puts on the wire *)

\* the frames sent of a type to a key, in the order sent
FramesTo(type, k) ==
    LET match(f) == f.type = type /\ f.to = k IN SelectSeq(sent, match)

\* the bundle chains under way for key k
ChainsTo(k) ==
    LET match(c) == c.to = k IN SelectSeq(sendTask.chains, match)

\* handleSend calls made in group mode, the one under way included
SendsStarted == Len(packets) + (IF sendTask.pc = "encrypting" THEN 1 ELSE 0)

\* the members of the sender's group other than the sender
OtherMembers ==
    IF HasGroup(Sender)
    THEN Range(StoredGroup(Sender).memberPublicKeys) \ {PublicKeyOf(Sender)}
    ELSE {}

(* C34: a group send invokes the sender-key encryption exactly once and sends
   the identical ciphertext, counter and signature in one message envelope to
   each member other than the sender, never to the sender's own key; the
   bundle is unicast once to each other member, whether or not the member is
   a contact *)
C34_OneEncryptionPerSend ==
    /\ Len(encLog) = Len(packets)
    /\ \A i \in 1..Len(sent) :
          /\ sent[i].to # PublicKeyOf(Sender)
          /\ sent[i].to \in OtherMembers
    /\ \A k \in OtherMembers :
          /\ FramesTo("message", k) =
                [j \in 1..Len(packets) |->
                    GroupMessageFrame(PublicKeyOf(Sender), k, GroupId, packets[j])]
          /\ Len(FramesTo("group-sender-key-bundle", k)) + Len(ChainsTo(k)) = SendsStarted

\* two group sends have completed and every bundle chain has run
C34_Witness ==
    /\ Len(packets) = 2
    /\ Quiescent
    /\ Len(sent) = 8
    /\ Cardinality(OtherMembers) = 2

(* C35: in handleSend the bundle goes out before the message, for every
   recipient and in every interleaving of the bundle promise chains, which
   are not awaited, with the awaited group encryption: a message frame sent
   to a key is preceded on the socket by a bundle frame sent to that key *)
C35_BundleBeforeMessage ==
    \A i \in 1..Len(sent) :
       (sent[i].type = "message" /\ sent[i].groupId # "")
          => \E j \in 1..(i - 1) :
                /\ sent[j].type = "group-sender-key-bundle"
                /\ sent[j].to = sent[i].to

--------------------------------------------------------------------------
(* A packet that never arrives.  The sender encrypts up to MaxLossMsgs     *)
(* messages and hands out its current bundle at any time; bundles and      *)
(* packets reach one receiver in any order, any number of times, or never. *)

\* group messages the sender encrypts where a loss is looked at
MaxLossMsgs == 3

LossInit ==
    /\ GroupInit
    /\ impl = "senderKeys"

LossNext ==
    \/ SK_Distribute
    \/ Len(packets) < MaxLossMsgs /\ SK_EncryptCall("hello")
    \/ \E payload \in bundles : SK_SaveBundle(Victim, payload)
    \/ \E i \in 1..Len(packets) : SK_Decrypt(Victim, i)

SpecLoss == LossInit /\ [][LossNext]_vars

\* the index r has stored for the sender, 0 when it has stored nothing
StoredIndex(r) ==
    IF HasState(senderKeyStates[BrowserOf(r)], r, GroupId, PublicKeyOf(Sender))
    THEN ReceiverState(r).messageIndex
    ELSE 0

(* C36: once a receiver has decrypted a packet of a sender, so that its
   stored index for the sender is greater than 0, a packet of that sender is
   decrypted by decryptGroupMessageFromPacket only when the packet before it
   was decrypted there: when one packet never arrives no later packet is
   decrypted, whatever bundles the sender hands out and the receiver is
   given in between *)
C36_LossUnrecoverable ==
    [][\A i \in 1..Len(packets) :
          (/\ rx[Victim].accepted # <<>>
           /\ SK_Decrypt(Victim, i)
           /\ lastCall'.result = "ok")
             => /\ StoredIndex(Victim) > 0
                /\ i > 1
                /\ Includes(rx[Victim].accepted, i - 1)]_vars

\* the receiver decrypted the first packet, the second never arrived, the
\* sender handed out its bundle again and the third packet was refused
C36_Witness ==
    /\ Len(packets) = 3
    /\ Cardinality(bundles) >= 2
    /\ rx[Victim].accepted = <<1>>
    /\ rx[Victim].count = 2
    /\ rx[Victim].mode = "dirty"
    /\ StoredIndex(Victim) = 1
    /\ lastCall.op = "decrypt" /\ lastCall.result = "null" /\ lastCall.stage = "open"

--------------------------------------------------------------------------
(* The relay: who is sent what *)

\* the keys an envelope's `to` names
NamedIn(to) ==
    IF IsString(to) THEN {to.s}
    ELSE IF IsArray(to) THEN {to.a[i].s : i \in {j \in 1..Len(to.a) : IsString(to.a[j])}}
    ELSE {}

(* C37: a connection is sent an envelope only if, when the relay handles the
   envelope, the connection is registered under a key the envelope's `to`
   names and its readyState is OPEN; a connection registered only under
   other keys, or one that has closed, is sent nothing *)
C37_RoutingIsolation ==
    \A c \in Conns :
        delivered[c] # <<>> =>
            /\ lastFrame.ws # "none"
            /\ lastFrame.raw.parses
            /\ readyState(phase, c) = "OPEN"
            /\ \E k \in NamedIn(lastFrame.raw.msg.to) :
                  /\ k \in DOMAIN connections
                  /\ c \in connections[k]
                  /\ k \in registered[c]

\* C37's case: a message for key A was handled while one connection under A
\* was OPEN, another under A had begun to close, and a third was registered
\* under B only: the first alone was sent it
C37_Witness ==
    /\ LastWas("message")
    /\ lastFrame.raw.msg.to = Str("A")
    /\ \E c1, c2, c3 \in Conns :
          /\ registered[c1] = {"A"} /\ phase[c1] = "open" /\ delivered[c1] # <<>>
          /\ registered[c2] = {"A"} /\ phase[c2] = "closing" /\ delivered[c2] = <<>>
          /\ registered[c3] = {"B"} /\ phase[c3] = "open" /\ delivered[c3] = <<>>

\* the handler run of this step is a register frame of ws for key k
Registers(ws, k) ==
    /\ lastFrame'.ws = ws
    /\ IsRegistration(lastFrame'.raw)
    /\ lastFrame'.raw.msg.publicKey.s = k
    /\ OnRegisterFrame(ws)

(* C38: one key may have several live connections and registration is
   idempotent: a `message` envelope is sent exactly once to each OPEN
   connection registered under `to` and to no other, however many connections
   are registered under the key, and a `register` of a connection for a key
   it is registered under changes nothing in the registry *)
C38_OncePerConnection ==
    /\ [](\A c \in Conns :
            (/\ LastWas("message")
             /\ IsString(lastFrame.raw.msg.to) /\ IsString(lastFrame.raw.msg.from))
               => Len(delivered[c]) =
                     (IF /\ lastFrame.raw.msg.to.s \in registered[c]
                         /\ readyState(phase, c) = "OPEN"
                      THEN 1 ELSE 0))
    /\ [][\A ws \in Conns : \A k \in KeyNames :
             (/\ k \in DOMAIN connections
              /\ ws \in connections[k]
              /\ Registers(ws, k))
                => connections' = connections]_vars

\* C38's case: three connections are registered under A, one of them also
\* under B, and a message for A was sent once to each
C38_Witness ==
    /\ LastWas("message")
    /\ lastFrame.raw.msg.to = Str("A")
    /\ "A" \in DOMAIN connections
    /\ connections["A"] = Conns
    /\ \E c \in Conns : registered[c] = {"A", "B"}
    /\ \A c \in Conns : Len(delivered[c]) = 1

\* the types the relay has a branch for
RelayTypes == {Str("register"), Str("message"), Str("group-event"), Str("sender-key"),
               Str("group-message")}

\* the frames the claim lists: one that does not parse, a register without a
\* string publicKey, a message whose from or to is no string, an unknown type
ListedMalformed(raw) ==
    \/ ~raw.parses
    \/ /\ ~raw.isNull
       /\ \/ raw.msg.type = Str("register") /\ ~IsString(raw.msg.publicKey)
          \/ raw.msg.type = Str("message")
                /\ (~IsString(raw.msg.from) \/ ~IsString(raw.msg.to))
          \/ raw.msg.type \notin RelayTypes

\* a frame that is no envelope the relay knows: the listed ones, and JSON
\* text that is no object and so has no type
Malformed(raw) == ListedMalformed(raw) \/ (raw.parses /\ raw.isNull)

\* the handler run of this step drops the frame silently: nothing is sent, to
\* the sender or anybody else, the registry is as before, and the sender's
\* connection is open for its next frame
DroppedSilently ==
    /\ delivered' = NoSends
    /\ connections' = connections
    /\ registered' = registered
    /\ phase'[lastFrame'.ws] = "open"

(* C39: a malformed frame is dropped silently at the relay: a frame that is
   not parseable JSON, a register without a string publicKey, a message whose
   from or to is not a string, and an envelope of unknown type each cause no
   delivery, no reply to the sender and no change of the registry, and the
   connection stays usable for later frames *)
C39_MalformedDropped ==
    [][(/\ lastFrame'.ws # "none"
        /\ lastFrame' # lastFrame
        /\ Malformed(lastFrame'.raw))
          => DroppedSilently]_vars

\* the same for the four kinds of frame the sentence lists by name
ListedMalformedDropped ==
    [][(/\ lastFrame'.ws # "none"
        /\ lastFrame' # lastFrame
        /\ ListedMalformed(lastFrame'.raw))
          => DroppedSilently]_vars

==========================================================================
